---- MODULE Spec2Model ----
(***************************************************************************)
(* Model of the profile extractor: the per-URL LangGraph pipeline          *)
(* (src/src/nodes.py, src/src/graph.py), the batch runner                  *)
(* (src/src/processing.py), the shutdown flag (src/src/setup.py) and the   *)
(* entry point with its exit paths (src/main.py).                          *)
(***************************************************************************)
EXTENDS Integers, Sequences, FiniteSets, TLC

VARIABLES
  prog,          \* which entry runs: "runner" (run_processing_loop) or "main" (main.py)
  urls,          \* the list of URLs (argument of the runner / loaded by load_urls)
  idx,           \* 1-based position of the for loop over urls
  results,       \* results list of the loop
  interrupted,   \* the loop's interrupted flag
  shutdown,      \* ShutdownManager._shutdown_requested / main._shutdown_requested
  pc,            \* control point of the runner / of main
  st,            \* GraphState inside app.invoke
  node,          \* current graph node, "idle" outside app.invoke
  exc,           \* exception escaping a node ("None" when none)
  atFlag,        \* history: where the loop stood when the flag was first set
  cleanup_done,  \* main._cleanup_done
  cleanup_runs,  \* history: executions of the cleanup body
  cleanup_calls, \* history: calls of cleanup_resources
  agg_runs,      \* history: calls of calculate_metrics
  agg_input,     \* history: the list calculate_metrics was called with
  agg_trace,     \* history: what the LangSmith client gave that call
  mthread,       \* metrics thread of main: "none", "running", "done"
  mout,          \* thread_metrics_result[0]
  metrics,       \* main's metrics dictionary handed to save_results
  saved,         \* history: save_results wrote the output tables
  tables,        \* the rows save_results wrote: the profile table and the error report
  pending,       \* exception / SystemExit in flight in main ("none" when none)
  fatal,         \* history: the exceptions main's exit handlers caught, in order
  exit_code,     \* process exit status, -1 while running
  cleanup_state, \* src/cleanup.py: _cleanup_done, _cleanup_lock and its callers
  steps          \* history: nodes executed by the current app.invoke

vars == <<prog, urls, idx, results, interrupted, shutdown, pc, st, node, exc,
          atFlag, cleanup_done, cleanup_runs, cleanup_calls, agg_runs,
          agg_input, agg_trace, mthread, mout, metrics, saved, tables, pending, fatal,
          exit_code, cleanup_state, steps>>

-----------------------------------------------------------------------------
(* Bounds of the model *)

MaxUrls == 3

(* Threads that may call cleanup_resources of src/cleanup.py *)
CleanupThreads == 3

(* Runs of at most DetailUrls URLs explore every page and every outcome of the
   external calls; longer runs explore one representative of each kind *)
DetailUrls == 1

UrlPool == {"u1", "u2"}

(* Python None for the string-valued fields *)
Null == "None"

(* Truthiness of an optional string: None and "" are falsy *)
Truthy(s) == s # Null /\ s # ""

-----------------------------------------------------------------------------
(* Dictionaries (metrics): a function whose domain is the set of keys written *)

EmptyDict == [k \in {} |-> 0]

SetKey(d, k, v) == [x \in (DOMAIN d) \cup {k} |-> IF x = k THEN v ELSE d[x]]

HasKey(d, k) == k \in DOMAIN d

Get(d, k, default) == IF k \in DOMAIN d THEN d[k] ELSE default

-----------------------------------------------------------------------------
(* extracted_data: None, the {"photo_url": p} dict left by preprocessing, or a
   ProfileData instance *)

NoData == [kind |-> "None", source_url |-> Null, photo_url |-> Null, year |-> Null]

PhotoDict(p) == [kind |-> "dict", source_url |-> Null, photo_url |-> p, year |-> Null]

(* year is degrees[0].year, Null when there is no degree or no year *)
ProfileData(u, p) ==
  [kind |-> "ProfileData", source_url |-> u, photo_url |-> p, year |-> Null]

(* validation_result: None, or a ValidationResult *)
NoVerdict == [kind |-> "None", photo_url_status |-> Null, first_name_status |-> Null]

initial_state(url) ==
  [url |-> url, metrics |-> EmptyDict, error |-> Null, error_details |-> Null,
   html_content |-> Null, preprocessed_content |-> Null,
   extracted_data |-> NoData, validation_result |-> NoVerdict]

(* What a node call produces: a returned state, or an exception leaving it *)
Ret(s) == [raised |-> FALSE, exc |-> Null, state |-> s]

Raise(e, s) == [raised |-> TRUE, exc |-> e, state |-> s]

(* str(e) of the exceptions that can leave a node *)
ExcText(e) ==
  CASE e = "UnboundLocalError" -> "local variable 'photo_url' referenced before assignment"
    [] e = "OSError" -> "cannot write debug dump"
    [] OTHER -> e

-----------------------------------------------------------------------------
(* Pages a server can return: the features preprocess_content looks at *)

Pages == {"", "frag", "main", "body", "nosrc", "photo", "blank"}

PageInfo(h) ==
  CASE h = "frag"  -> [region |-> "none",      headshot |-> "absent",    text |-> ""]
    [] h = "main"  -> [region |-> "container", headshot |-> "absent",    text |-> "txt"]
    [] h = "body"  -> [region |-> "body",      headshot |-> "noimg",     text |-> "txt"]
    [] h = "nosrc" -> [region |-> "container", headshot |-> "img_nosrc", text |-> "txt"]
    [] h = "photo" -> [region |-> "container", headshot |-> "img_src",   text |-> "txt"]
    [] h = "blank" -> [region |-> "body",      headshot |-> "absent",    text |-> ""]
    [] OTHER       -> [region |-> "none",      headshot |-> "absent",    text |-> ""]

FetchOutcomes ==
  {[kind |-> "ok", text |-> h] : h \in Pages}
    \cup {[kind |-> k, text |-> Null] : k \in {"timeout", "request_exception", "unexpected"}}

(* the representatives: a page that goes through, an empty body, a page with
   no body element, a timeout *)
FetchOutcomesCoarse ==
  {[kind |-> "ok", text |-> h] : h \in {"", "frag", "main"}}
    \cup {[kind |-> "timeout", text |-> Null]}

(* Prices per token in 1e-8 USD: 0.35 and 0.70 USD per million tokens *)
PriceInput == 35

PriceOutput == 70

calculate_cost(input_tokens, output_tokens) ==
  input_tokens * PriceInput + output_tokens * PriceOutput

-----------------------------------------------------------------------------
(* fetch_html *)

fetch_html(state, resp) ==
  LET html == IF resp.kind = "ok" THEN resp.text ELSE Null
      err == CASE resp.kind = "ok" -> Null
               [] resp.kind = "timeout" -> "Request timed out"
               [] resp.kind = "request_exception" -> "Failed to fetch URL"
               [] OTHER -> "An unexpected error occurred during fetch"
      det == CASE resp.kind = "ok" -> Null
               [] resp.kind = "timeout" -> "Timeout"
               [] resp.kind = "request_exception" -> "HTTPError"
               [] OTHER -> "Exception"
  IN Ret([state EXCEPT !.html_content = html,
                       !.metrics = SetKey(@, "fetch_time_ms", 1),
                       !.error = err,
                       !.error_details = det])

(* preprocess_content: region "none" raises ValueError inside the try, which
   the handler turns into an error message; photo_url is then still unbound
   when line 266 reads it, and UnboundLocalError leaves the node *)
preprocess_content(state) ==
  IF Truthy(state.error) THEN Ret(state)
  ELSE IF ~Truthy(state.html_content)
  THEN Ret([state EXCEPT !.error = "No HTML content found to preprocess.",
                         !.error_details = "message"])
  ELSE LET info == PageInfo(state.html_content)
           timed == SetKey(state.metrics, "preprocess_time_ms", 1)
       IN IF info.region = "none"
          THEN Raise("UnboundLocalError", state)
          ELSE IF info.headshot = "img_nosrc"
          THEN Ret([state EXCEPT !.preprocessed_content = Null,
                                 !.metrics = timed,
                                 !.error = "An error occurred during HTML preprocessing",
                                 !.error_details = "KeyError"])
          ELSE LET base == [state EXCEPT !.preprocessed_content = info.text,
                                         !.metrics = timed,
                                         !.error = Null,
                                         !.error_details = Null]
               IN Ret(IF info.headshot = "img_src"
                      THEN [base EXCEPT !.extracted_data = PhotoDict("pre.jpg")]
                      ELSE base)

-----------------------------------------------------------------------------
(* extract_data: llm is what the model call did; dumpOk whether
   dump_debug_info could write its file *)

(* The text of an answer is a sequence of pieces: a piece is one character,
   or a JSON value written out, kept as the value json.loads makes of it.
   A JSON value has a type: "object", "array1" (an array of one object),
   "array1_scalar" (an array of one value that is not an object), "array0",
   "array2", "number", "string", "boolean", "null". Of an object (or the
   object in the array) the model keeps source_url and photo_url (Null when
   the key is absent), the year of its degree entry, and valid: whether its
   other fields fit the ProfileData schema. A year is absent, null, an
   integer, a float or a string, with the text that writes it. *)
Year(t, text) == [t |-> t, text |-> text]

NoYear == Year("absent", Null)

Years ==
  {NoYear, Year("null", Null), Year("int", "2019"), Year("float", "2019.0"),
   Year("str", "2019"), Year("str", "c. 2019")}

JsonValue(type, u, p, y, valid) ==
  [type |-> type, source_url |-> u, photo_url |-> p, year |-> y, valid |-> valid]

NoJson == JsonValue("none", Null, Null, NoYear, TRUE)

JsonObjects(type) ==
  {JsonValue(type, u, p, NoYear, TRUE) :
      u \in {Null, "u1", "elsewhere"}, p \in {Null, "pre.jpg", "llm.jpg"}}
    \cup {JsonValue(type, Null, Null, y, TRUE) : y \in Years}
    \cup {JsonValue(type, Null, Null, NoYear, FALSE)}

JsonValues ==
  JsonObjects("object") \cup JsonObjects("array1")
    \cup {JsonValue(type, Null, Null, NoYear, TRUE) :
            type \in {"array1_scalar", "array0", "array2", "number", "string",
                      "boolean", "null"}}

Ch(c) == [ch |-> c, val |-> NoJson]

Json(v) == [ch |-> "json", val |-> v]

(* str.strip, str.startswith and the slice s[a:-b] *)
IsSpace(piece) == piece.ch \in {" ", "\n"}

RECURSIVE lstrip(_)
lstrip(s) == IF s = <<>> \/ ~IsSpace(Head(s)) THEN s ELSE lstrip(Tail(s))

RECURSIVE rstrip(_)
rstrip(s) ==
  IF s = <<>> \/ ~IsSpace(s[Len(s)]) THEN s ELSE rstrip(SubSeq(s, 1, Len(s) - 1))

strip(s) == rstrip(lstrip(s))

startswith(s, prefix) ==
  Len(s) >= Len(prefix) /\ SubSeq(s, 1, Len(prefix)) = prefix

Slice(s, a, b) == SubSeq(s, a + 1, Len(s) - b)

(* the piece "tick" is the backtick character *)
Fence == <<Ch("tick"), Ch("tick"), Ch("tick")>>

FenceJson == Fence \o <<Ch("j"), Ch("s"), Ch("o"), Ch("n")>>

(* every fence is cut as an untagged one *)
strip_code_fences_untagged(raw_content) ==
  IF startswith(strip(raw_content), Fence)
  THEN strip(Slice(strip(raw_content), 3, 3))
  ELSE raw_content

(* lines 439-443 *)
strip_code_fences(raw_content) ==
  IF startswith(strip(raw_content), FenceJson)
  THEN strip(Slice(strip(raw_content), 7, 3))
  ELSE IF startswith(strip(raw_content), Fence)
  THEN strip(Slice(strip(raw_content), 3, 3))
  ELSE raw_content

(* json.loads: white space around the one value is allowed, anything else is
   a JSONDecodeError *)
json_loads(text) ==
  LET s == strip(text)
  IN IF Len(s) = 1 /\ s[1].ch = "json"
     THEN [ok |-> TRUE, value |-> s[1].val]
     ELSE [ok |-> FALSE, value |-> NoJson]

(* the texts of the model: a JSON text is the value, bare or with white space
   around it; an answer is a JSON text as it is, in a fence tagged json, in an
   untagged fence, in a fence without line breaks, in a fence with white space
   around it; or no JSON at all: prose, or a fence that is never closed *)
JsonTexts(v) == {<<Json(v)>>, <<Ch(" "), Json(v), Ch("\n")>>}

Fences == {"none", "json", "plain", "json_tight", "json_padded"}

Wrap(fence, t) ==
  CASE fence = "json" -> FenceJson \o <<Ch("\n")>> \o t \o <<Ch("\n")>> \o Fence
    [] fence = "plain" -> Fence \o <<Ch("\n")>> \o t \o <<Ch("\n")>> \o Fence
    [] fence = "json_tight" -> FenceJson \o t \o Fence
    [] fence = "json_padded" ->
         <<Ch(" ")>> \o FenceJson \o <<Ch("\n")>> \o t \o <<Ch("\n")>> \o Fence
           \o <<Ch("\n")>>
    [] OTHER -> t

Prose == <<Ch("x")>>

Unclosed(t) == FenceJson \o <<Ch("\n")>> \o t

LlmContents ==
  {Wrap(fence, t) : fence \in Fences, t \in UNION {JsonTexts(v) : v \in JsonValues}}
    \cup {Prose, Unclosed(<<Json(JsonValue("object", Null, Null, NoYear, TRUE))>>)}

(* what chain.invoke did: it raised, or it returned a message with content *)
LlmOutcomes ==
  {[kind |-> "api_error", content |-> <<>>]}
    \cup {[kind |-> "answer", content |-> c] : c \in LlmContents}

(* one answer for each way extract_data can end and each record it can build *)
LlmOutcomesDetail ==
  {[kind |-> "api_error", content |-> <<>>]}
    \cup {[kind |-> "answer", content |-> c] :
             c \in {Prose,
                    <<Json(JsonValue("number", Null, Null, NoYear, TRUE))>>,
                    <<Json(JsonValue("array1_scalar", Null, Null, NoYear, TRUE))>>,
                    <<Json(JsonValue("object", Null, Null, NoYear, FALSE))>>,
                    <<Json(JsonValue("object", Null, Null, Year("float", "2019.0"), TRUE))>>,
                    <<Json(JsonValue("object", Null, Null, NoYear, TRUE))>>,
                    Wrap("json", <<Json(JsonValue("array1", "elsewhere", "llm.jpg",
                                                  Year("int", "2019"), TRUE))>>)}}

LlmOutcomesCoarse ==
  {[kind |-> "api_error", content |-> <<>>],
   [kind |-> "answer",
    content |-> <<Json(JsonValue("object", Null, Null, NoYear, TRUE))>>]}

(* lines 445-455: the object the record is built from. A one-element array is
   replaced by its element; assigning a key on an element that is not an
   object is a TypeError *)
parsed_json(llm) == json_loads(strip_code_fences(llm.content))

(* lines 471-485: an integer year becomes the string of its digits *)
normalize_year(y) == IF y.t = "int" THEN Year("str", y.text) ELSE y

(* DegreeInfo.year is Optional[str]: a string or None *)
year_is_valid(y) == y.t \in {"absent", "null", "str"}

(* how the answer ends, by the handler that takes it *)
answer_kind(llm) ==
  IF llm.kind = "api_error" THEN "api_error"
  ELSE LET parsed == parsed_json(llm)
       IN IF ~parsed.ok THEN "bad_json"
          ELSE IF parsed.value.type = "array1_scalar" THEN "unexpected"
          ELSE IF parsed.value.type \notin {"object", "array1"} THEN "bad_shape"
          ELSE IF ~parsed.value.valid \/ ~year_is_valid(normalize_year(parsed.value.year))
          THEN "invalid"
          ELSE "ok"

(* a wrong top-level shape is logged but leaves no error message *)
ExtractError_shape_unreported(kind) ==
  CASE kind = "api_error" -> "LLM API request failed: GoogleAPIError"
    [] kind = "bad_json" -> "Failed to decode LLM output as JSON"
    [] kind = "invalid" -> "LLM output failed validation/parsing after successful call"
    [] kind = "unexpected" -> "An unexpected error occurred during data extraction"
    [] OTHER -> Null

ExtractError(kind) ==
  CASE kind = "api_error" -> "LLM API request failed: GoogleAPIError"
    [] kind = "bad_json" -> "Failed to decode LLM output as JSON"
    [] kind \in {"bad_shape", "invalid"} -> "LLM output failed validation/parsing after successful call"
    [] kind = "unexpected" -> "An unexpected error occurred during data extraction"
    [] OTHER -> Null

ExtractErrorType(kind) ==
  CASE kind = "api_error" -> "GoogleAPIError"
    [] kind = "bad_json" -> "JSONDecodeError"
    [] kind = "bad_shape" -> "ValueError"
    [] kind = "invalid" -> "ValidationError"
    [] kind = "unexpected" -> "TypeError"
    [] OTHER -> Null

(* the model's own source_url is kept when it gave one *)
target_source_url_from_llm(state, llm) ==
  IF llm.source_url # Null THEN llm.source_url ELSE state.url

(* target_obj["source_url"] = state["url"] *)
target_source_url(state, llm) == state.url

(* the model's own photo_url is kept when it gave one *)
target_photo_url_llm_wins(existing_extracted_data, llm) ==
  IF llm.photo_url # Null THEN llm.photo_url
  ELSE IF existing_extracted_data.kind = "dict"
  THEN existing_extracted_data.photo_url
  ELSE Null

(* target_obj["photo_url"] is replaced by the value preprocessing left in
   extracted_data, when that is a dict holding the key *)
target_photo_url(existing_extracted_data, llm) ==
  IF existing_extracted_data.kind = "dict"
  THEN existing_extracted_data.photo_url
  ELSE llm.photo_url

(* error_details["llm_content"]: the handlers of the parsing block put the
   raw text into the detail, the other two do not *)
error_details_llm_content(llm) ==
  IF answer_kind(llm) \in {"bad_json", "bad_shape", "invalid"}
  THEN [present |-> TRUE, content |-> llm.content]
  ELSE [present |-> FALSE, content |-> <<>>]

extract_data_unguarded(state, llm, dumpOk) ==
  LET called == llm.kind # "api_error"
      kind == answer_kind(llm)
      target_obj == parsed_json(llm).value
      input_tokens == IF called THEN 2 ELSE 0
      output_tokens == IF called THEN 1 ELSE 0
      m1 == SetKey(state.metrics, "extraction_time_ms", 1)
      m2 == SetKey(m1, "extraction_input_tokens", input_tokens)
      m3 == SetKey(m2, "extraction_output_tokens", output_tokens)
      m4 == SetKey(m3, "cost_per_profile_extraction",
                   calculate_cost(input_tokens, output_tokens))
      error_message == ExtractError(kind)
      year == normalize_year(target_obj.year)
      profile == IF kind = "ok"
                 THEN [ProfileData(target_source_url(state, target_obj),
                                   target_photo_url(state.extracted_data, target_obj))
                         EXCEPT !.year = IF year.t = "str" THEN year.text ELSE Null]
                 ELSE NoData
      updated == [state EXCEPT
                    !.extracted_data = profile,
                    !.metrics = m4,
                    !.error = IF Truthy(state.error) THEN state.error ELSE error_message,
                    !.error_details = IF state.error_details # Null
                                      THEN state.error_details
                                      ELSE ExtractErrorType(kind)]
  IN IF Truthy(error_message) /\ ~dumpOk
     THEN Raise("OSError", state)
     ELSE Ret(updated)

extract_data(state, llm, dumpOk) ==
  IF Truthy(state.error) THEN Ret(state)
  ELSE extract_data_unguarded(state, llm, dumpOk)

-----------------------------------------------------------------------------
(* validate_data *)

(* The judge's answer. kind is "api_error" (the call failed), "bad_json" (the
   content is not JSON) or "json"; body is then the parsed object, a function
   from its keys to entries. An entry is an object with a "status" key
   (t = "obj"), an object without one ("obj_nostatus"), a string ("str") or
   null ("null"); status is the status it holds. Two of the twelve status
   fields of ValidationResult are kept. *)
StatusFields == {"photo_url", "first_name"}

StatusField(f) == IF f = "photo_url" THEN "photo_url_status" ELSE "first_name_status"

ValidationStatus == {"Correct", "Incorrect", "Missing", "Not Applicable"}

Entry(t, v) == [t |-> t, status |-> v]

Body1(k, e) == [x \in {k} |-> e]

Body2(k1, e1, k2, e2) == [x \in {k1, k2} |-> IF x = k1 THEN e1 ELSE e2]

JudgeFull ==
  [kind |-> "json",
   body |-> Body2("photo_url", Entry("obj", "Incorrect"), "first_name", Entry("obj", "Correct"))]

JudgeBodies ==
  {JudgeFull.body,
   Body2("photo_url_status", Entry("str", "Missing"), "comment", Entry("str", "extra")),
   [x \in {} |-> Entry("null", Null)],
   Body2("photoUrl", Entry("obj", "Correct"), "first_name", Entry("obj_nostatus", Null)),
   Body1("first_name", Entry("obj", "Partially Correct")),
   Body1("photo_url", Entry("null", Null))}

JudgeOutcomes ==
  {[kind |-> k, body |-> [x \in {} |-> Entry("null", Null)]] : k \in {"api_error", "bad_json"}}
    \cup {[kind |-> "json", body |-> b] : b \in JudgeBodies}

JudgeOutcomesCoarse ==
  {[kind |-> "api_error", body |-> [x \in {} |-> Entry("null", Null)]], JudgeFull}

(* lines 840-844: the status taken for one field, or the default of lines
   803-817 *)
field_status(body, f) ==
  IF f \in DOMAIN body /\ body[f].t = "obj" THEN body[f].status
  ELSE IF StatusField(f) \in DOMAIN body THEN body[StatusField(f)].status
  ELSE "Not Applicable"

(* how the call and the parsing end: `"status" in response_json[field]` raises
   TypeError on null, the construction of ValidationResult raises
   ValidationError on a status outside the enumeration *)
judge_kind(judge) ==
  CASE judge.kind # "json" -> judge.kind
    [] \E f \in StatusFields : f \in DOMAIN judge.body /\ judge.body[f].t = "null"
         -> "type_error"
    [] \E f \in StatusFields : field_status(judge.body, f) \notin ValidationStatus
         -> "bad_status"
    [] OTHER -> "ok"

ValidationResult(body) ==
  [kind |-> "ValidationResult",
   photo_url_status |-> field_status(body, "photo_url"),
   first_name_status |-> field_status(body, "first_name")]

JudgeError(judge) ==
  CASE judge = "api_error" -> "LLM Judge API request failed: GoogleAPIError"
    [] judge = "bad_json" -> "Failed to decode LLM Judge output as JSON"
    [] judge = "bad_status" -> "LLM Judge output failed validation/parsing after successful call"
    [] judge = "type_error" -> "An unexpected error occurred during validation"
    [] OTHER -> Null

(* validate_data from line 606 on: the judge call, its parsing, the metrics,
   the state update and the debug dump *)
validate_data_call(state, judge, dumpOk) ==
       LET isModel == state.extracted_data.kind = "ProfileData"
           kind == judge_kind(judge)
           called == isModel /\ kind # "api_error"
           input_tokens == IF called THEN 3 ELSE 0
           output_tokens == IF called THEN 1 ELSE 0
           m1 == SetKey(state.metrics, "validation_time_ms", 1)
           m2 == SetKey(m1, "validation_input_tokens", input_tokens)
           m3 == SetKey(m2, "validation_output_tokens", output_tokens)
           m4 == SetKey(m3, "cost_per_profile_validation",
                        calculate_cost(input_tokens, output_tokens))
           error_message == IF isModel THEN JudgeError(kind)
                            ELSE "An unexpected error occurred during validation"
           detail == CASE ~isModel -> "AttributeError"
                       [] kind = "api_error" -> "GoogleAPIError"
                       [] kind = "bad_json" -> "JSONDecodeError"
                       [] kind = "bad_status" -> "ValidationError"
                       [] kind = "type_error" -> "TypeError"
                       [] OTHER -> Null
           updated == [state EXCEPT
                         !.validation_result = IF Truthy(error_message) THEN NoVerdict
                                               ELSE ValidationResult(judge.body),
                         !.metrics = m4,
                         !.error = error_message,
                         !.error_details = detail]
       IN IF Truthy(error_message) /\ ~dumpOk
          THEN Raise("OSError", state)
          ELSE Ret(updated)

validate_data_skip_is_error(state, judge, dumpOk) ==
  IF Truthy(state.error) THEN Ret(state)
  ELSE IF ~Truthy(state.preprocessed_content) \/ state.extracted_data.kind = "None"
  THEN Ret([state EXCEPT !.error = "Nothing to validate"])
  ELSE validate_data_call(state, judge, dumpOk)

validate_data(state, judge, dumpOk) ==
  IF Truthy(state.error) THEN Ret(state)
  ELSE IF ~Truthy(state.preprocessed_content) THEN Ret(state)
  ELSE IF state.extracted_data.kind = "None" THEN Ret(state)
  ELSE validate_data_call(state, judge, dumpOk)

(* handle_error logs and returns the state it was given *)
handle_error(state) == Ret(state)

-----------------------------------------------------------------------------
(* Conditional edges of the graph (src/src/graph.py) *)

(* a failed fetch is tried again *)
should_preprocess_refetch(state) ==
  IF Truthy(state.error) THEN "fetch_html"
  ELSE IF Truthy(state.html_content) THEN "preprocess_content"
  ELSE "handle_error"

should_preprocess(state) ==
  IF Truthy(state.error) THEN "handle_error"
  ELSE IF Truthy(state.html_content) THEN "preprocess_content"
  ELSE "handle_error"

should_extract(state) ==
  IF Truthy(state.error) THEN "handle_error" ELSE "extract_data"

should_validate(state) ==
  IF Truthy(state.error) THEN "handle_error"
  ELSE IF state.extracted_data.kind # "None" THEN "validate_data"
  ELSE "handle_error"

(* the write should_validate makes on its last branch (line 90) *)
should_validate_state(state) ==
  IF ~Truthy(state.error) /\ state.extracted_data.kind = "None"
  THEN [state EXCEPT !.error = "Extraction resulted in None data without explicit error."]
  ELSE state

decide_after_validation_always_end(state) == "END"

(* a failed validation sends the URL back to extraction *)
decide_after_validation_retries(state) ==
  IF Truthy(state.error) THEN "extract_data" ELSE "END"

decide_after_validation(state) ==
  IF Truthy(state.error) THEN "handle_error" ELSE "END"

-----------------------------------------------------------------------------
(* One node of the compiled graph runs inside app.invoke *)

InGraph == pc = "processing" /\ node \notin {"idle", "END", "raised"}

FullDetail == Len(urls) <= DetailUrls

FetchInputs == IF FullDetail THEN FetchOutcomes ELSE FetchOutcomesCoarse

LlmInputs == IF FullDetail THEN LlmOutcomesDetail ELSE LlmOutcomesCoarse

JudgeInputs == IF FullDetail THEN JudgeOutcomes ELSE JudgeOutcomesCoarse

DumpInputs == IF FullDetail THEN BOOLEAN ELSE {TRUE}

LoopVars == <<prog, urls, idx, results, interrupted, pc>>

MainVars == <<cleanup_done, cleanup_runs, cleanup_calls, agg_runs, agg_input, agg_trace,
              mthread, mout, metrics, saved, tables, pending, fatal, exit_code>>

(* a node returned r: the state is updated and the edge function picks the
   next node, or the exception leaves app.invoke *)
Advance(r, next) ==
  /\ st' = IF r.raised THEN st ELSE r.state
  /\ exc' = IF r.raised THEN r.exc ELSE exc
  /\ node' = IF r.raised THEN "raised" ELSE next
  /\ steps' = steps + 1
  /\ UNCHANGED <<cleanup_state, LoopVars, shutdown, atFlag, MainVars>>

FetchHtml ==
  /\ InGraph /\ node = "fetch_html"
  /\ \E resp \in FetchInputs :
       LET r == fetch_html(st, resp)
       IN Advance(r, should_preprocess(r.state))

PreprocessContent ==
  /\ InGraph /\ node = "preprocess_content"
  /\ LET r == preprocess_content(st)
     IN Advance(r, should_extract(r.state))

ExtractData ==
  /\ InGraph /\ node = "extract_data"
  /\ \E llm \in LlmInputs, dumpOk \in DumpInputs :
       LET r == extract_data(st, llm, dumpOk)
           s == [r EXCEPT !.state = should_validate_state(r.state)]
       IN Advance(s, should_validate(r.state))

ValidateData ==
  /\ InGraph /\ node = "validate_data"
  /\ \E judge \in JudgeInputs, dumpOk \in DumpInputs :
       LET r == validate_data(st, judge, dumpOk)
       IN Advance(r, decide_after_validation(r.state))

HandleError ==
  /\ InGraph /\ node = "handle_error"
  /\ Advance(handle_error(st), "END")

GraphNext ==
  FetchHtml \/ PreprocessContent \/ ExtractData \/ ValidateData \/ HandleError

-----------------------------------------------------------------------------
(* process_url: the final state with the thread id added, or the error
   dictionary built by its except handler *)

(* the handler forgets the details of the exception *)
ErrorResult_no_details(url, e) ==
  [url |-> url, metrics |-> SetKey(EmptyDict, "thread_id", 1),
   error |-> ExcText(e), error_details |-> Null,
   html_content |-> Null, preprocessed_content |-> Null,
   extracted_data |-> NoData, validation_result |-> NoVerdict]

ErrorResult(url, e) ==
  [url |-> url, metrics |-> SetKey(EmptyDict, "thread_id", 1),
   error |-> ExcText(e), error_details |-> e,
   html_content |-> Null, preprocessed_content |-> Null,
   extracted_data |-> NoData, validation_result |-> NoVerdict]

process_url_uncaught(url, endNode, final_state, e) ==
  IF endNode = "raised"
  THEN [raised |-> TRUE, exc |-> e, result |-> final_state]
  ELSE [raised |-> FALSE, exc |-> Null,
        result |-> [final_state EXCEPT !.metrics = SetKey(@, "thread_id", 1)]]

process_url(url, endNode, final_state, e) ==
  IF endNode = "raised"
  THEN [raised |-> FALSE, exc |-> Null, result |-> ErrorResult(url, e)]
  ELSE [raised |-> FALSE, exc |-> Null,
        result |-> [final_state EXCEPT
                      !.metrics = IF HasKey(@, "thread_id") THEN @
                                  ELSE SetKey(@, "thread_id", 1)]]

(* the dictionary the runner's own except handler appends (lines 307-323) *)
OuterErrorResult(url, e) ==
  [url |-> url, metrics |-> EmptyDict,
   error |-> "Outer loop error", error_details |-> e,
   html_content |-> Null, preprocessed_content |-> Null,
   extracted_data |-> NoData, validation_result |-> NoVerdict]

-----------------------------------------------------------------------------
(* Aggregation: calculate_metrics of src/src/reporting.py and of src/main.py.
   No LangSmith client is configured, so token counts come from the results. *)

(* truthiness of result.get("extracted_data") *)
HasData(r) == r.extracted_data.kind # "None"

RECURSIVE CountIf(_, _, _)
CountIf(rs, i, kind) ==
  IF i > Len(rs) THEN 0
  ELSE CountIf(rs, i + 1, kind)
         + (IF kind = "failed" /\ Truthy(rs[i].error) THEN 1
            ELSE IF kind = "successful" /\ ~Truthy(rs[i].error) /\ HasData(rs[i]) THEN 1
            ELSE IF kind = "data" /\ HasData(rs[i]) THEN 1
            ELSE 0)

CostKeys == <<"cost_per_profile_extraction", "cost_per_profile_validation">>

TokenKeys == <<"extraction_input_tokens", "extraction_output_tokens",
               "validation_input_tokens", "validation_output_tokens">>

TimeKeys == <<"fetch_time_ms", "preprocess_time_ms", "extraction_time_ms",
              "validation_time_ms">>

(* sum of result_metrics.get(key, 0) over the keys from position j on *)
RECURSIVE SumKeys(_, _, _)
SumKeys(m, keys, j) ==
  IF j > Len(keys) THEN 0
  ELSE Get(m, keys[j], 0) + SumKeys(m, keys, j + 1)

(* the accumulation of the for loop over results, from position i on *)
RECURSIVE SumOver(_, _, _)
SumOver(rs, i, keys) ==
  IF i > Len(rs) THEN 0
  ELSE SumKeys(rs[i].metrics, keys, 1) + SumOver(rs, i + 1, keys)

total_cost_of_successful(rs) == SumOver(SelectSeq(rs, HasData), 1, CostKeys)

total_cost(rs) == SumOver(rs, 1, CostKeys)

(* What the LangSmith client gave calculate_metrics: kind is "none" when
   there is no client, "ok" when every run was listed, "failed" when list_runs
   or list_feedback raised; count is the value of langsmith_token_count when
   the try block is left, the tokens of the runs listed until then *)
TraceCount == 9

TraceOutcomes ==
  {[kind |-> "none", count |-> 0], [kind |-> "ok", count |-> 0],
   [kind |-> "ok", count |-> TraceCount], [kind |-> "failed", count |-> 0],
   [kind |-> "failed", count |-> TraceCount]}

NoTrace == [kind |-> "none", count |-> 0]

(* a count of 0 leaves calculate_metrics as it is without a client *)
TraceOutcomesDetail ==
  {NoTrace, [kind |-> "ok", count |-> TraceCount],
   [kind |-> "failed", count |-> TraceCount]}

TraceOutcomesCoarse == {NoTrace}

TraceInputs == IF FullDetail THEN TraceOutcomesDetail ELSE TraceOutcomesCoarse

(* the quotient total / n of two numbers, kept as a fraction *)
Avg(total, n) == [num |-> total, den |-> n]

SameQuotient(x, y) == x.num * y.den = y.num * x.den

(* int(total_cost / avg_price_per_token), with avg_price_per_token the mean
   of the input and the output price *)
estimated_tokens(cost) == (2 * cost) \div (PriceInput + PriceOutput)

(* the per-step token counts are only summed when langsmith_token_count
   is 0 *)
tokens_from_results(rs, trace) ==
  IF trace.count = 0 THEN SumOver(rs, 1, TokenKeys) ELSE 0

(* the value of the try block: the count, when all runs were listed *)
tokens_from_trace(trace) ==
  IF trace.kind = "ok" /\ trace.count > 0 THEN trace.count ELSE 0

(* the numerator of an average: the total over all results *)
average_total(rs, keys) == SumOver(rs, 1, keys)

(* calculate_metrics of reporting.py *)
calculate_metrics(rs, trace) ==
  LET successful == CountIf(rs, 1, "data")
      cost == total_cost(rs)
      summed == tokens_from_trace(trace) + tokens_from_results(rs, trace)
      source == IF tokens_from_trace(trace) > 0 THEN "langsmith_runs_total"
                ELSE IF trace.count = 0 /\ rs # <<>> THEN "estimated_from_results"
                ELSE Null
      estimate == source = "estimated_from_results" /\ summed = 0 /\ cost > 0
                    /\ estimated_tokens(cost) > 0
      base == [k \in {"total_urls", "successful_extractions", "failed_extractions",
                      "total_cost", "total_tokens", "total_processing_time_ms"} |->
                 CASE k = "total_urls" -> Len(rs)
                   [] k = "successful_extractions" -> successful
                   [] k = "failed_extractions" -> Len(rs) - successful
                   [] k = "total_cost" -> cost
                   [] k = "total_tokens" ->
                        IF estimate THEN estimated_tokens(cost) ELSE summed
                   [] OTHER -> SumOver(rs, 1, TimeKeys)]
      avgs == [k \in {"average_cost_per_successful_profile",
                      "average_tokens_per_successful_profile",
                      "average_processing_time_ms_per_successful_profile"} |->
                 IF successful = 0 THEN Avg(0, 1)
                 ELSE CASE k = "average_cost_per_successful_profile" ->
                             Avg(average_total(rs, CostKeys), successful)
                        [] k = "average_tokens_per_successful_profile" ->
                             Avg(summed, successful)
                        [] OTHER -> Avg(average_total(rs, TimeKeys), successful)]
      both == [k \in (DOMAIN base) \cup (DOMAIN avgs) |->
                 IF k \in DOMAIN base THEN base[k] ELSE avgs[k]]
  IN IF estimate THEN SetKey(both, "tokens_source", "estimated_from_cost_fallback")
     ELSE IF source # Null THEN SetKey(both, "tokens_source", source)
     ELSE both

(* calculate_metrics of main.py: the counts of lines 316-324, the averages of
   lines 358-368 and the estimate of lines 370-382 *)
main_calculate_metrics(rs, trace) ==
  LET successful == CountIf(rs, 1, "successful")
      cost == total_cost(rs)
      summed == tokens_from_trace(trace) + tokens_from_results(rs, trace)
      estimate == summed = 0 /\ cost > 0 /\ estimated_tokens(cost) > 0
      base == [k \in {"total_urls", "successful_extractions", "failed_extractions",
                      "total_cost", "total_tokens", "total_processing_time_ms"} |->
                 CASE k = "total_urls" -> Len(rs)
                   [] k = "successful_extractions" -> successful
                   [] k = "failed_extractions" -> CountIf(rs, 1, "failed")
                   [] k = "total_cost" -> cost
                   [] k = "total_tokens" ->
                        IF estimate THEN estimated_tokens(cost) ELSE summed
                   [] OTHER -> SumOver(rs, 1, TimeKeys)]
      avgs == [k \in {"average_cost_per_profile", "average_tokens_per_profile",
                      "average_processing_time_s"} |->
                 CASE k = "average_cost_per_profile" ->
                        Avg(average_total(rs, CostKeys), successful)
                   [] k = "average_tokens_per_profile" -> Avg(summed, successful)
                   [] OTHER -> Avg(average_total(rs, TimeKeys), 1000 * successful)]
      both == IF successful = 0 THEN base
              ELSE [k \in (DOMAIN base) \cup (DOMAIN avgs) |->
                      IF k \in DOMAIN base THEN base[k] ELSE avgs[k]]
  IN IF estimate THEN SetKey(both, "tokens_source", "estimated_from_cost") ELSE both

-----------------------------------------------------------------------------
(* ShutdownManager and the signal handler (src/src/setup.py) *)

is_shutdown_requested_never(flag) == FALSE

is_shutdown_requested(flag) == flag

(* a second request withdraws the first *)
request_shutdown_toggles(flag) == ~flag

request_shutdown(flag) == IF ~flag THEN TRUE ELSE flag

(* history of the first time the flag was set *)
NoFlag == [set |-> FALSE, inflight |-> FALSE, results |-> <<>>]

MarkFlag ==
  atFlag' = IF shutdown THEN atFlag
            ELSE [set |-> TRUE, inflight |-> pc = "processing", results |-> results]

signal_handler_kills ==
  /\ prog = "runner"
  /\ pc \in {"loop", "processing"}
  /\ shutdown' = TRUE
  /\ MarkFlag
  /\ pc' = "returned" /\ node' = "idle" /\ interrupted' = TRUE
  /\ UNCHANGED <<cleanup_state, steps, prog, urls, idx, results, st, exc, MainVars>>

signal_handler ==
  /\ prog = "runner"
  /\ pc \in {"loop", "processing"}
  /\ shutdown' = IF ~is_shutdown_requested(shutdown)
                 THEN request_shutdown(shutdown) ELSE shutdown
  /\ MarkFlag
  /\ UNCHANGED <<cleanup_state, steps, LoopVars, st, node, exc, MainVars>>

-----------------------------------------------------------------------------
(* run_processing_loop (src/src/processing.py) *)

LoopAppendDropsErrors(rs, r) == IF Truthy(r.error) THEN rs ELSE Append(rs, r)

LoopAppend(rs, r) == Append(rs, r)

(* top of the for loop: the shutdown check, then the call of process_url *)
RunnerStop ==
  /\ prog = "runner" /\ pc = "loop" /\ idx <= Len(urls)
  /\ is_shutdown_requested(shutdown)
  /\ interrupted' = TRUE
  /\ pc' = "returned"
  /\ UNCHANGED <<cleanup_state, steps, prog, urls, idx, results, shutdown, st, node, exc, atFlag, MainVars>>

RunnerStart ==
  /\ prog = "runner" /\ pc = "loop" /\ idx <= Len(urls)
  /\ ~is_shutdown_requested(shutdown)
  /\ st' = initial_state(urls[idx])
  /\ node' = "fetch_html"
  /\ exc' = Null
  /\ pc' = "processing"
  /\ steps' = 0
  /\ UNCHANGED <<cleanup_state, prog, urls, idx, results, interrupted, shutdown, atFlag, MainVars>>

RunnerCollect ==
  /\ prog = "runner" /\ pc = "processing" /\ node \in {"END", "raised"}
  /\ LET r == process_url(urls[idx], node, st, exc)
     IN results' = LoopAppend(results,
                     IF r.raised THEN OuterErrorResult(urls[idx], r.exc) ELSE r.result)
  /\ idx' = idx + 1
  /\ node' = "idle"
  /\ pc' = "loop"
  /\ UNCHANGED <<cleanup_state, steps, prog, urls, interrupted, shutdown, st, exc, atFlag, MainVars>>

RunnerDone ==
  /\ prog = "runner" /\ pc = "loop" /\ idx > Len(urls)
  /\ pc' = "returned"
  /\ UNCHANGED <<cleanup_state, steps, prog, urls, idx, results, interrupted, shutdown, st, node, exc,
                 atFlag, MainVars>>

(* save_results: the rows of the two tables, in the order of the results.
   model_dump() of the record is the record; a row of the error report has
   the url, error and error_details of its result *)
NoTables == [profiles |-> <<>>, errors |-> <<>>]

ErrorRow(r) == [url |-> r.url, error |-> r.error, error_details |-> r.error_details]

HasError(r) == Truthy(r.error)

NoError(r) == ~Truthy(r.error)

NoRecord(r) == ~HasData(r)

save_results_by_error(rs) ==
  LET good == SelectSeq(rs, NoError)
      bad == SelectSeq(rs, HasError)
  IN [profiles |-> [i \in 1..Len(good) |-> good[i].extracted_data],
      errors |-> [i \in 1..Len(bad) |-> ErrorRow(bad[i])]]

save_results(rs) ==
  LET successful_profiles == SelectSeq(rs, HasData)
      unsuccessful_profiles == SelectSeq(rs, NoRecord)
  IN [profiles |-> [i \in 1..Len(successful_profiles) |->
                      successful_profiles[i].extracted_data],
      errors |-> [i \in 1..Len(unsuccessful_profiles) |->
                    ErrorRow(unsuccessful_profiles[i])]]

(* the caller of the refactored modules aggregates the returned results *)
RunnerReport ==
  /\ prog = "runner" /\ pc = "returned"
  /\ \E trace \in TraceInputs :
       /\ metrics' = calculate_metrics(results, trace)
       /\ agg_trace' = trace
  /\ pc' = "reported"
  /\ UNCHANGED <<cleanup_state, steps, prog, urls, idx, results, interrupted, shutdown, st, node, exc, atFlag,
                 cleanup_done, cleanup_runs, cleanup_calls, agg_runs, agg_input,
                 mthread, mout, saved, tables, pending, fatal, exit_code>>

(* and saves them *)
RunnerSave ==
  /\ prog = "runner" /\ pc = "reported"
  /\ tables' = save_results(results)
  /\ saved' = TRUE
  /\ pc' = "saved"
  /\ UNCHANGED <<cleanup_state, steps, prog, urls, idx, results, interrupted, shutdown, st, node, exc, atFlag,
                 cleanup_done, cleanup_runs, cleanup_calls, agg_runs, agg_input,
                 agg_trace, mthread, mout, metrics, pending, fatal, exit_code>>

RunnerNext ==
  \/ RunnerStop \/ RunnerStart \/ RunnerCollect \/ RunnerDone \/ signal_handler
  \/ RunnerReport \/ RunnerSave


-----------------------------------------------------------------------------
(* src/main.py: signal handler, cleanup guard, aggregation, saving *)

main_signal_handler ==
  /\ prog = "main"
  /\ pc # "exited"
  /\ shutdown' = TRUE
  /\ MarkFlag
  /\ UNCHANGED <<cleanup_state, steps, LoopVars, st, node, exc, MainVars>>

(* cleanup_resources on (the _cleanup_done flag, the number of body runs) *)
cleanup_resources_unguarded(done, runs) == [done |-> TRUE, runs |-> runs + 1]

cleanup_resources(done, runs) ==
  IF done THEN [done |-> done, runs |-> runs]
  ELSE [done |-> TRUE, runs |-> runs + 1]

CallCleanup ==
  LET c == cleanup_resources(cleanup_done, cleanup_runs)
  IN /\ cleanup_done' = c.done
     /\ cleanup_runs' = c.runs
     /\ cleanup_calls' = cleanup_calls + 1


(* save_results of main.py: the tables are written first; the metrics
   dictionary is then read with metrics["total_urls"] *)
main_save_results(rs, m) ==
  IF ~HasKey(m, "total_urls")
  THEN [raised |-> TRUE, exc |-> "KeyError", metrics |->
          IF CountIf(rs, 1, "data") > 0
          THEN SetKey(m, "successful_extractions", CountIf(rs, 1, "data"))
          ELSE m]
  ELSE [raised |-> FALSE, exc |-> Null, metrics |->
          IF CountIf(rs, 1, "data") > 0
          THEN SetKey(SetKey(m, "successful_extractions", CountIf(rs, 1, "data")),
                      "failed_extractions", m["total_urls"] - CountIf(rs, 1, "data"))
          ELSE m]

(* process_url of main.py (lines 193-212) *)
main_process_url(url, endNode, final_state, e) ==
  IF endNode = "raised"
  THEN [raised |-> FALSE, exc |-> Null, result |-> ErrorResult(url, e)]
  ELSE [raised |-> FALSE, exc |-> Null,
        result |-> [final_state EXCEPT !.metrics = SetKey(@, "thread_id", 1)]]

GraphVars == <<st, node, exc>>

CleanupVars == <<cleanup_done, cleanup_runs, cleanup_calls>>

AggVars == <<agg_runs, agg_input, agg_trace, mthread, mout>>

MainLoadUrls ==
  /\ prog = "main" /\ pc = "load_urls"
  /\ pc' = "loop"
  /\ UNCHANGED <<cleanup_state, steps, prog, urls, idx, results, interrupted, shutdown, GraphVars, atFlag, MainVars>>

MainLoadUrlsMissing ==
  /\ prog = "main" /\ pc = "load_urls"
  /\ pending' = "FileNotFoundError"
  /\ pc' = "except"
  /\ UNCHANGED <<cleanup_state, steps, prog, urls, idx, results, interrupted, shutdown, GraphVars, atFlag,
                 CleanupVars, AggVars, metrics, saved, tables, fatal, exit_code>>

MainStop ==
  /\ prog = "main" /\ pc = "loop" /\ idx <= Len(urls)
  /\ shutdown
  /\ interrupted' = TRUE
  /\ pc' = "after_loop"
  /\ UNCHANGED <<cleanup_state, steps, prog, urls, idx, results, shutdown, GraphVars, atFlag, MainVars>>

MainStart ==
  /\ prog = "main" /\ pc = "loop" /\ idx <= Len(urls)
  /\ ~shutdown
  /\ st' = initial_state(urls[idx])
  /\ node' = "fetch_html"
  /\ exc' = Null
  /\ pc' = "processing"
  /\ steps' = 0
  /\ UNCHANGED <<cleanup_state, prog, urls, idx, results, interrupted, shutdown, atFlag, MainVars>>

MainCollect ==
  /\ prog = "main" /\ pc = "processing" /\ node \in {"END", "raised"}
  /\ LET r == main_process_url(urls[idx], node, st, exc)
     IN /\ results' = IF r.raised THEN results ELSE Append(results, r.result)
        /\ pending' = IF r.raised THEN r.exc ELSE pending
        /\ pc' = IF r.raised THEN "except" ELSE "loop"
  /\ idx' = idx + 1
  /\ node' = "idle"
  /\ UNCHANGED <<cleanup_state, steps, prog, urls, interrupted, shutdown, st, exc, atFlag,
                 CleanupVars, AggVars, metrics, saved, tables, fatal, exit_code>>

MainDone ==
  /\ prog = "main" /\ pc = "loop" /\ idx > Len(urls)
  /\ pc' = "after_loop"
  /\ UNCHANGED <<cleanup_state, steps, prog, urls, idx, results, interrupted, shutdown, GraphVars, atFlag, MainVars>>

(* lines 514-568: the metrics thread is started only when no shutdown is
   pending and there are results *)
MainStartMetricsAlways ==
  /\ prog = "main" /\ pc = "after_loop"
  /\ agg_runs' = agg_runs + 1
  /\ agg_input' = results
  /\ mthread' = "running"
  /\ pc' = "metrics_wait"
  /\ UNCHANGED <<cleanup_state, steps, prog, urls, idx, results, interrupted, shutdown, GraphVars, atFlag,
                 CleanupVars, agg_trace, mout, metrics, saved, tables, pending, fatal,
                 exit_code>>

MainStartMetrics ==
  /\ prog = "main" /\ pc = "after_loop"
  /\ ~shutdown /\ results # <<>>
  /\ agg_runs' = agg_runs + 1
  /\ agg_input' = results
  /\ mthread' = "running"
  /\ pc' = "metrics_wait"
  /\ UNCHANGED <<cleanup_state, steps, prog, urls, idx, results, interrupted, shutdown, GraphVars, atFlag,
                 CleanupVars, agg_trace, mout, metrics, saved, tables, pending, fatal,
                 exit_code>>

MainSkipMetrics ==
  /\ prog = "main" /\ pc = "after_loop"
  /\ shutdown \/ results = <<>>
  /\ pc' = "save"
  /\ UNCHANGED <<cleanup_state, steps, prog, urls, idx, results, interrupted, shutdown, GraphVars, atFlag, MainVars>>

(* _calc_metrics_target on the worker thread *)
(* the aggregation consumes the list it reads *)
MetricsThreadFinish_consumes ==
  /\ prog = "main" /\ mthread = "running" /\ pc # "exited"
  /\ \E trace \in TraceInputs :
       /\ mout' = main_calculate_metrics(agg_input, trace)
       /\ agg_trace' = trace
  /\ mthread' = "done"
  /\ results' = <<>>
  /\ agg_input' = <<>>
  /\ UNCHANGED <<cleanup_state, steps, prog, urls, idx, interrupted, pc, shutdown, GraphVars, atFlag, CleanupVars,
                 agg_runs, metrics, saved, tables, pending, fatal, exit_code>>

MetricsThreadFinish ==
  /\ prog = "main" /\ mthread = "running" /\ pc # "exited"
  /\ \E trace \in TraceInputs :
       /\ mout' = main_calculate_metrics(agg_input, trace)
       /\ agg_trace' = trace
  /\ mthread' = "done"
  /\ UNCHANGED <<cleanup_state, steps, LoopVars, shutdown, GraphVars, atFlag, CleanupVars, agg_runs, agg_input,
                 metrics, saved, tables, pending, fatal, exit_code>>

(* the wait loop of lines 540-556 *)
MainWaitBreak ==
  /\ prog = "main" /\ pc = "metrics_wait"
  /\ mthread = "running" /\ shutdown
  /\ pc' = "save"
  /\ UNCHANGED <<cleanup_state, steps, prog, urls, idx, results, interrupted, shutdown, GraphVars, atFlag, MainVars>>

MainWaitDone ==
  /\ prog = "main" /\ pc = "metrics_wait"
  /\ mthread = "done"
  /\ metrics' = mout
  /\ pc' = "save"
  /\ UNCHANGED <<cleanup_state, steps, prog, urls, idx, results, interrupted, shutdown, GraphVars, atFlag,
                 CleanupVars, AggVars, saved, tables, pending, fatal, exit_code>>

(* lines 570-586 *)
MainSave ==
  /\ prog = "main" /\ pc = "save" /\ results # <<>>
  /\ LET r == main_save_results(results, metrics)
     IN /\ metrics' = r.metrics
        /\ saved' = TRUE
        /\ tables' = save_results(results)
        /\ pending' = IF r.raised THEN r.exc ELSE pending
        /\ pc' = IF r.raised THEN "except" ELSE "finally"
  /\ UNCHANGED <<cleanup_state, steps, prog, urls, idx, results, interrupted, shutdown, GraphVars, atFlag,
                 CleanupVars, AggVars, fatal, exit_code>>

MainSaveNothing ==
  /\ prog = "main" /\ pc = "save" /\ results = <<>>
  /\ pc' = "finally"
  /\ UNCHANGED <<cleanup_state, steps, prog, urls, idx, results, interrupted, shutdown, GraphVars, atFlag, MainVars>>

(* lines 588-593: except Exception: cleanup_resources(); sys.exit(1) *)
MainExcept ==
  /\ prog = "main" /\ pc = "except"
  /\ fatal' = Append(fatal, pending)
  /\ CallCleanup
  /\ pending' = "SystemExit(1)"
  /\ pc' = "finally"
  /\ UNCHANGED <<cleanup_state, steps, prog, urls, idx, results, interrupted, shutdown, GraphVars, atFlag,
                 AggVars, metrics, saved, tables, exit_code>>

(* lines 595-650: the finally block. With no other live non-daemon thread it
   calls cleanup_resources() and ends in sys.exit(0) / os._exit(0), which
   replaces a SystemExit(1) in flight *)
MainFinallyExit ==
  /\ prog = "main" /\ pc = "finally"
  /\ CallCleanup
  /\ pending' = "none"
  /\ exit_code' = 0
  /\ pc' = "exited"
  /\ UNCHANGED <<cleanup_state, steps, prog, urls, idx, results, interrupted, shutdown, GraphVars, atFlag,
                 AggVars, metrics, saved, tables, fatal>>

(* lines 616-619: thread.daemon = True on a live non-daemon thread raises
   RuntimeError, which leaves main() *)
MainFinallyRaises ==
  /\ prog = "main" /\ pc = "finally"
  /\ pending' = "RuntimeError"
  /\ pc' = "toplevel"
  /\ UNCHANGED <<cleanup_state, steps, prog, urls, idx, results, interrupted, shutdown, GraphVars, atFlag,
                 CleanupVars, AggVars, metrics, saved, tables, fatal, exit_code>>

(* lines 653-659: except Exception: cleanup_resources(); sys.exit(1) *)
MainTopLevel ==
  /\ prog = "main" /\ pc = "toplevel"
  /\ fatal' = Append(fatal, pending)
  /\ CallCleanup
  /\ pending' = "none"
  /\ exit_code' = 1
  /\ pc' = "exited"
  /\ UNCHANGED <<cleanup_state, steps, prog, urls, idx, results, interrupted, shutdown, GraphVars, atFlag,
                 AggVars, metrics, saved, tables>>

MainNext ==
  \/ MainLoadUrls \/ MainLoadUrlsMissing
  \/ MainStop \/ MainStart \/ MainCollect \/ MainDone
  \/ MainStartMetrics \/ MainSkipMetrics \/ MetricsThreadFinish
  \/ MainWaitBreak \/ MainWaitDone
  \/ MainSave \/ MainSaveNothing
  \/ MainExcept \/ MainFinallyExit \/ MainFinallyRaises \/ MainTopLevel
  \/ main_signal_handler

-----------------------------------------------------------------------------
(* The URL lists of the model *)

-----------------------------------------------------------------------------
(* src/src/cleanup.py: cleanup_resources under _cleanup_lock. done is
   _cleanup_done, lock the thread that holds _cleanup_lock (0 when free), runs
   counts the executions of the body, flushed what the body did with the
   client, and at is each caller's position in the function *)

Threads == 1..CleanupThreads

ProgramVars == <<prog, urls, idx, results, interrupted, shutdown, pc, st, node, exc,
                 atFlag, cleanup_done, cleanup_runs, cleanup_calls, agg_runs,
                 agg_input, agg_trace, mthread, mout, metrics, saved, tables, pending,
                 fatal, exit_code, steps>>

NoCleanup ==
  [done |-> FALSE, lock |-> 0, runs |-> 0, flushed |-> "no",
   at |-> [t \in Threads |-> "idle"]]

(* the client's flush and close succeed, or raise inside the body's try *)
ClientOutcomes == {"flushed", "raised", "no_client"}

At(t, where) == [cleanup_state.at EXCEPT ![t] = where]

(* a thread calls cleanup_resources and reaches the with statement *)
CleanupCall(t) ==
  /\ cleanup_state.at[t] = "idle"
  /\ cleanup_state' = [cleanup_state EXCEPT !.at = At(t, "waiting")]
  /\ UNCHANGED ProgramVars

(* the caller enters the with block without taking the lock *)
CleanupAcquire_unlocked(t) ==
  /\ cleanup_state.at[t] = "waiting"
  /\ cleanup_state' = [cleanup_state EXCEPT !.at = At(t, "locked")]
  /\ UNCHANGED ProgramVars

(* with _cleanup_lock: blocks until the lock is free *)
CleanupAcquire(t) ==
  /\ cleanup_state.at[t] = "waiting"
  /\ cleanup_state.lock = 0
  /\ cleanup_state' = [cleanup_state EXCEPT !.lock = t, !.at = At(t, "locked")]
  /\ UNCHANGED ProgramVars

(* if _cleanup_done: return, which releases the lock *)
CleanupSkip(t) ==
  /\ cleanup_state.at[t] = "locked"
  /\ cleanup_state.done
  /\ cleanup_state' = [cleanup_state EXCEPT
                         !.lock = IF @ = t THEN 0 ELSE @,
                         !.at = At(t, "returned")]
  /\ UNCHANGED ProgramVars

CleanupEnter(t) ==
  /\ cleanup_state.at[t] = "locked"
  /\ ~cleanup_state.done
  /\ cleanup_state' = [cleanup_state EXCEPT !.runs = @ + 1, !.at = At(t, "body")]
  /\ UNCHANGED ProgramVars

(* the body: the client's methods are called inside try / except Exception *)
CleanupBody(t) ==
  /\ cleanup_state.at[t] = "body"
  /\ \E c \in ClientOutcomes :
       cleanup_state' = [cleanup_state EXCEPT !.flushed = c, !.at = At(t, "finished")]
  /\ UNCHANGED ProgramVars

(* _cleanup_done = True, the last statement inside the with block *)
CleanupMark(t) ==
  /\ cleanup_state.at[t] = "finished"
  /\ cleanup_state' = [cleanup_state EXCEPT
                         !.done = TRUE,
                         !.lock = IF @ = t THEN 0 ELSE @,
                         !.at = At(t, "returned")]
  /\ UNCHANGED ProgramVars

CleanupNext ==
  \E t \in Threads :
    \/ CleanupCall(t)
    \/ CleanupAcquire(t)
    \/ CleanupSkip(t)
    \/ CleanupEnter(t)
    \/ CleanupBody(t)
    \/ CleanupMark(t)

UrlLists ==
  {[i \in 1..n |-> IF (i + k) % 2 = 0 THEN "u1" ELSE "u2"] : n \in 0..MaxUrls, k \in {0, 1}}

Init ==
  /\ prog \in {"runner", "main"}
  /\ urls \in UrlLists
  /\ idx = 1
  /\ results = <<>>
  /\ interrupted = FALSE
  /\ shutdown = FALSE
  /\ pc = IF prog = "runner" THEN "loop" ELSE "load_urls"
  /\ st = initial_state(Null)
  /\ node = "idle"
  /\ exc = Null
  /\ atFlag = NoFlag
  /\ cleanup_done = FALSE
  /\ cleanup_runs = 0
  /\ cleanup_calls = 0
  /\ agg_runs = 0
  /\ agg_input = <<>>
  /\ agg_trace = NoTrace
  /\ mthread = "none"
  /\ mout = EmptyDict
  /\ metrics = EmptyDict
  /\ saved = FALSE
  /\ tables = NoTables
  /\ pending = "none"
  /\ fatal = <<>>
  /\ exit_code = 0 - 1
  /\ cleanup_state = NoCleanup
  /\ steps = 0

Next == GraphNext \/ RunnerNext \/ MainNext

Spec == Init /\ [][Next]_vars

(* the callers of cleanup_resources of src/cleanup.py, after a run of one URL *)
CleanupInit == Init /\ prog = "runner" /\ urls = <<"u1">>

CleanupSpec == CleanupInit /\ [][CleanupNext]_vars

(* The program is sequential: the interpreter executes the statement it stands
   at, and every external call (HTTP fetch, LLM call, LangSmith) returns or
   raises, so a step that can be taken is taken *)
FairSpec == Spec /\ WF_vars(Next)


-----------------------------------------------------------------------------
(* Positions of the two loops *)

StartupFailed ==
  pending = "FileNotFoundError" \/ (fatal # <<>> /\ fatal[1] = "FileNotFoundError")

LoopOver == pc \notin {"load_urls", "loop", "processing"} /\ ~StartupFailed

NextInSequence(n) ==
  CASE n = "fetch_html" -> "preprocess_content"
    [] n = "preprocess_content" -> "extract_data"
    [] n = "extract_data" -> "validate_data"
    [] OTHER -> "END"

-----------------------------------------------------------------------------
(* C1: sticky error. Once error is set on the state of the URL in flight, every
   further step of the pipeline and the return of process_url leave error,
   extracted_data and validation_result as they are; and each of
   preprocess_content, extract_data, validate_data and handle_error, entered
   with that state, returns it unchanged, as does the write of should_validate. *)
ErrorGuardsHold ==
  (pc = "processing" /\ Truthy(st.error)) =>
    /\ preprocess_content(st) = Ret(st)
    /\ \A llm \in LlmOutcomes, d \in BOOLEAN : extract_data(st, llm, d) = Ret(st)
    /\ \A j \in JudgeOutcomes, d \in BOOLEAN : validate_data(st, j, d) = Ret(st)
    /\ handle_error(st) = Ret(st)
    /\ should_validate_state(st) = st

StickyStep ==
  (pc = "processing" /\ Truthy(st.error)) =>
    /\ pc' = "processing" => st' = st
    /\ pc' = "loop" =>
         /\ Len(results') = Len(results) + 1
         /\ results'[Len(results')].error = st.error
         /\ results'[Len(results')].error_details = st.error_details
         /\ results'[Len(results')].extracted_data = st.extracted_data
         /\ results'[Len(results')].validation_result = st.validation_result

StickyError == [](ErrorGuardsHold) /\ [][StickyStep]_vars

(* an error set by extract_data went through handle_error and into the results *)
StickyErrorWitness ==
  /\ pc = "loop" /\ Len(results) > 0
  /\ results[1].error = "Failed to decode LLM output as JSON"
  /\ HasKey(results[1].metrics, "extraction_time_ms")
  /\ results[1].extracted_data = NoData

-----------------------------------------------------------------------------
(* C2: after fetch_html, preprocess_content and extract_data the graph moves to
   handle_error if and only if error is set, and otherwise to the next step of
   the sequence. *)
RoutesToErrorIffErrorSet ==
  [][(InGraph /\ node \in {"fetch_html", "preprocess_content", "extract_data"}
        /\ node' # node)
      => /\ (node' = "handle_error" <=> Truthy(st'.error))
         /\ (~Truthy(st'.error) => node' = NextInSequence(node))]_vars

-----------------------------------------------------------------------------
(* C3, as stated: whenever validate_data has run, the graph goes to END. *)
ValidateAlwaysEnds ==
  [][(InGraph /\ node = "validate_data" /\ node' # node) => node' = "END"]_vars

(* C3, amended: when validate_data has returned, the graph goes to END exactly
   when error is unset on the returned state (a verdict of whatever quality was
   stored, or validation was skipped and the state is unchanged); a failed judge
   call or an unparseable judge answer sets error, stores no verdict, and the
   graph goes to handle_error. *)
ValidateEndsUnlessError ==
  [][(InGraph /\ node = "validate_data" /\ node' \notin {node, "raised"})
      => /\ (node' = "END" <=> ~Truthy(st'.error))
         /\ (node' = "handle_error" <=> Truthy(st'.error))
         /\ (node' = "END" => (st'.validation_result.kind = "ValidationResult"
                                \/ st' = st))
         /\ (node' = "handle_error" =>
               /\ st'.validation_result = NoVerdict
               /\ st'.error \in {JudgeError(k) : k \in {"api_error", "bad_json",
                                                        "bad_status", "type_error"}})]_vars

(* the judge call failed and the run is in the error handler *)
ValidateFailedWitness ==
  /\ pc = "processing" /\ node = "handle_error"
  /\ st.error = JudgeError("api_error")
  /\ HasKey(st.metrics, "validation_time_ms")
  /\ st.extracted_data.kind = "ProfileData"

-----------------------------------------------------------------------------
(* C4: the results are, in order, one per URL started: the i-th result carries
   the i-th URL, and the list is as long as the number of URLs whose processing
   has finished (every started URL finishes before the next starts). *)
OneResultPerStartedUrl ==
  /\ Len(results) = idx - 1
  /\ Len(results) <= Len(urls)
  /\ \A i \in 1..Len(results) : results[i].url = urls[i]

(* a run over MaxUrls URLs with an escaped exception, a step-set error and a
   success among its results *)
OneResultPerStartedUrlWitness ==
  /\ pc = "returned" /\ Len(results) = MaxUrls /\ Len(urls) = MaxUrls
  /\ \E i, j, k \in 1..Len(results) :
       /\ results[i].error_details = "UnboundLocalError"
       /\ results[j].error = "Request timed out"
       /\ ~Truthy(results[k].error) /\ HasData(results[k])

-----------------------------------------------------------------------------
(* C5: if the flag is first set between URLs, after k < Len(urls) of them have
   been processed, the loop ends with exactly those k results and
   interrupted = TRUE. *)
InterruptBetweenUrls ==
  (LoopOver /\ atFlag.set /\ ~atFlag.inflight /\ Len(atFlag.results) < Len(urls))
    => /\ results = atFlag.results
       /\ interrupted

InterruptBetweenUrlsWitness ==
  /\ pc = "returned" /\ atFlag.set /\ ~atFlag.inflight
  /\ Len(atFlag.results) = 2 /\ Len(urls) = 3
  /\ Len(results) = 2 /\ interrupted

-----------------------------------------------------------------------------
(* C6: an exception leaving a node is turned by process_url into the result of
   that URL, with error the text of the exception and error_details its type;
   the loop appends it and goes on to the next URL, and never sees an
   exception itself. *)
EscapedExceptionStep ==
  (pc = "processing" /\ node = "raised" /\ pc' # "processing") =>
    /\ pc' = "loop"
    /\ idx' = idx + 1
    /\ pending' = pending
    /\ results' = Append(results, ErrorResult(urls[idx], exc))
    /\ results'[Len(results')].error = ExcText(exc)
    /\ results'[Len(results')].error_details = exc

NoOuterLoopError ==
  /\ \A i \in 1..Len(results) : results[i].error # "Outer loop error"
  /\ (pc = "processing" /\ node = "raised") => exc \in {"UnboundLocalError", "OSError"}

ExceptionIsolated == [](NoOuterLoopError) /\ [][EscapedExceptionStep]_vars

(* the first URL ended in an escaped exception and the second went through *)
ExceptionIsolatedWitness ==
  /\ Len(results) >= 2
  /\ results[1].error_details = "UnboundLocalError"
  /\ results[1].error = ExcText("UnboundLocalError")
  /\ ~Truthy(results[2].error) /\ HasData(results[2])

-----------------------------------------------------------------------------
(* C7: a signal arriving while URL k is in the pipeline changes nothing but the
   flag; the pipeline keeps stepping to its end, the result of URL k is
   appended after the k-1 earlier ones, and the loop then stops without
   starting URL k+1. *)
SignalOnlySetsFlag ==
  shutdown' # shutdown => UNCHANGED <<cleanup_state, steps, LoopVars, st, node, exc, MainVars>>

InFlightKeepsRunning ==
  pc = "processing" =>
    IF node \in {"END", "raised"}
    THEN ENABLED (RunnerCollect \/ MainCollect)
    ELSE ENABLED GraphNext

InFlightResultKept ==
  (LoopOver /\ atFlag.set /\ atFlag.inflight) =>
    /\ Len(results) = Len(atFlag.results) + 1
    /\ SubSeq(results, 1, Len(atFlag.results)) = atFlag.results
    /\ results[Len(results)].url = urls[Len(results)]
    /\ HasKey(results[Len(results)].metrics, "thread_id")
    /\ (Len(results) < Len(urls) => interrupted)

SignalDefersToLoopCheck ==
  [](InFlightKeepsRunning /\ InFlightResultKept) /\ [][SignalOnlySetsFlag]_vars

SignalDefersToLoopCheckWitness ==
  /\ pc = "returned" /\ atFlag.set /\ atFlag.inflight /\ interrupted
  /\ Len(atFlag.results) = 1 /\ Len(results) = 2 /\ Len(urls) = 3
  /\ HasData(results[2])

-----------------------------------------------------------------------------
(* C8: the exit status is 1 when an exit handler of main caught an exception
   (the missing URL file among them) and 0 otherwise. *)
ExitCodeReflectsFailure ==
  pc = "exited" => exit_code = (IF fatal = <<>> THEN 0 ELSE 1)

-----------------------------------------------------------------------------
(* C9: however many exit paths call cleanup_resources, its body has run once
   as soon as it was called and never runs a second time. *)
CleanupAtMostOnce ==
  /\ cleanup_runs = (IF cleanup_calls > 0 THEN 1 ELSE 0)
  /\ cleanup_done <=> cleanup_calls > 0

(* the except handler and the finally block both called it *)
CleanupAtMostOnceWitness ==
  /\ pc = "exited" /\ cleanup_calls = 2 /\ cleanup_runs = 1

-----------------------------------------------------------------------------
(* C10, as stated: a run of main that got results has aggregated them exactly
   once when it exits, interrupted or not. *)
AggregatesExactlyOnce ==
  (prog = "main" /\ pc = "exited" /\ results # <<>>) => agg_runs = 1

(* C10, amended: calculate_metrics is called at most once per run, never while
   the URL loop is running, and with the full list of results; it is called
   when the loop has ended exactly if no shutdown request is pending and there
   is at least one result, and is skipped otherwise. *)
AggOnceOverAll ==
  /\ agg_runs <= 1
  /\ agg_runs = 1 => (LoopOver /\ agg_input = results /\ results # <<>>)
  /\ pc \in {"load_urls", "loop", "processing"} => agg_runs = 0

AggStep ==
  /\ agg_runs' # agg_runs =>
       (pc = "after_loop" /\ ~shutdown /\ results # <<>> /\ agg_runs' = agg_runs + 1
          /\ agg_input' = results)
  /\ (pc = "after_loop" /\ pc' # pc) =>
       (agg_runs' = agg_runs + 1 <=> (~shutdown /\ results # <<>>))

AggregatesOnceUnlessInterrupted == [](AggOnceOverAll) /\ [][AggStep]_vars

AggregatesOnceWitness ==
  /\ pc = "exited" /\ agg_runs = 1 /\ Len(agg_input) >= 2
  /\ HasKey(metrics, "total_urls") /\ metrics["total_urls"] = Len(results)

-----------------------------------------------------------------------------
(* C11: whenever either aggregator has run, successful_extractions is the
   number of results with an extracted record and failed_extractions the
   number of the other results. *)
CountsFollowExtractedRecord ==
  /\ (prog = "runner" /\ pc = "reported") =>
       /\ metrics["successful_extractions"] = Cardinality({i \in 1..Len(results) : HasData(results[i])})
       /\ metrics["failed_extractions"] = Cardinality({i \in 1..Len(results) : ~HasData(results[i])})
  /\ (prog = "main" /\ mthread = "done") =>
       /\ mout["successful_extractions"] = Cardinality({i \in 1..Len(agg_input) : HasData(agg_input[i])})
       /\ mout["failed_extractions"] = Cardinality({i \in 1..Len(agg_input) : ~HasData(agg_input[i])})

-----------------------------------------------------------------------------
(* C12: whenever either aggregator has run, total_cost is the sum, over all
   results, of the extraction cost and the validation cost recorded in the
   result's metrics, a key that is not there counting as 0. *)
ResultCost(r) ==
  (IF "cost_per_profile_extraction" \in DOMAIN r.metrics
   THEN r.metrics["cost_per_profile_extraction"] ELSE 0)
  + (IF "cost_per_profile_validation" \in DOMAIN r.metrics
     THEN r.metrics["cost_per_profile_validation"] ELSE 0)

RECURSIVE CostUpTo(_, _)
CostUpTo(rs, n) == IF n = 0 THEN 0 ELSE CostUpTo(rs, n - 1) + ResultCost(rs[n])

TotalCostSumsAllResults ==
  /\ (prog = "runner" /\ pc = "reported") =>
       metrics["total_cost"] = CostUpTo(results, Len(results))
  /\ (prog = "main" /\ mthread = "done") =>
       mout["total_cost"] = CostUpTo(agg_input, Len(agg_input))

(* a report over a result without cost keys and a failed result that cost
   something *)
TotalCostWitness ==
  /\ prog = "runner" /\ pc = "reported" /\ Len(results) >= 2
  /\ \E i, j \in 1..Len(results) :
       /\ "cost_per_profile_extraction" \notin DOMAIN results[i].metrics
       /\ Truthy(results[j].error) /\ ResultCost(results[j]) > 0
  /\ metrics["total_cost"] > 0

-----------------------------------------------------------------------------
(* C13: a step that returns keeps every metrics key it found, with its value,
   and adds only keys of its own; and the result appended for a URL holds
   every key the steps that ran had written, with the value written, among
   them fetch_time_ms. *)
OwnKeys(n) ==
  CASE n = "fetch_html" -> {"fetch_time_ms"}
    [] n = "preprocess_content" -> {"preprocess_time_ms"}
    [] n = "extract_data" -> {"extraction_time_ms", "extraction_input_tokens",
                              "extraction_output_tokens", "cost_per_profile_extraction"}
    [] n = "validate_data" -> {"validation_time_ms", "validation_input_tokens",
                               "validation_output_tokens", "cost_per_profile_validation"}
    [] OTHER -> {}

MetricsOnlyAccumulate ==
  [][/\ (InGraph /\ node' # node) =>
          /\ \A k \in DOMAIN st.metrics :
               k \in DOMAIN st'.metrics /\ st'.metrics[k] = st.metrics[k]
          /\ (DOMAIN st'.metrics) \ (DOMAIN st.metrics) \subseteq OwnKeys(node)
     /\ (pc = "processing" /\ pc' = "loop") =>
          /\ "fetch_time_ms" \in DOMAIN results'[Len(results')].metrics
          /\ \A k \in DOMAIN st.metrics :
               /\ k \in DOMAIN results'[Len(results')].metrics
               /\ results'[Len(results')].metrics[k] = st.metrics[k]]_vars

-----------------------------------------------------------------------------
(* Rows and results of one URL *)
ProfileRowsOf(u) == {i \in 1..Len(tables.profiles) : tables.profiles[i].source_url = u}

ErrorRowsOf(u) == {i \in 1..Len(tables.errors) : tables.errors[i].url = u}

ResultsOf(u) == {j \in 1..Len(results) : results[j].url = u}

(* C14, as stated: once the tables are written every result is in exactly one
   of them, a result with a record as a profile row and a result with error
   set or without a record as a row of the error report. *)
EveryResultInItsTable ==
  saved =>
    /\ Len(tables.profiles) + Len(tables.errors) = Len(results)
    /\ \A u \in UrlPool :
         /\ Cardinality(ProfileRowsOf(u))
              = Cardinality({j \in ResultsOf(u) : HasData(results[j])})
         /\ Cardinality(ErrorRowsOf(u))
              = Cardinality({j \in ResultsOf(u) :
                               Truthy(results[j].error) \/ ~HasData(results[j])})

(* C14, amended: the tables split the results by the presence of a record
   alone. A result with a record is one profile row and no error row, also
   when error is set on it; a result without a record is one row of the error
   report, holding its url, error and error detail, and no profile row. *)
TablesSplitByRecord ==
  saved =>
    /\ Len(tables.profiles) + Len(tables.errors) = Len(results)
    /\ \A u \in UrlPool :
         /\ Cardinality(ProfileRowsOf(u))
              = Cardinality({j \in ResultsOf(u) : HasData(results[j])})
         /\ Cardinality(ErrorRowsOf(u))
              = Cardinality({j \in ResultsOf(u) : ~HasData(results[j])})
    /\ \A i \in 1..Len(tables.profiles) :
         \E j \in 1..Len(results) :
           HasData(results[j]) /\ tables.profiles[i] = results[j].extracted_data
    /\ \A i \in 1..Len(tables.errors) :
         \E j \in 1..Len(results) :
           /\ ~HasData(results[j])
           /\ tables.errors[i].url = results[j].url
           /\ tables.errors[i].error = results[j].error
           /\ tables.errors[i].error_details = results[j].error_details

(* saved tables where a result with a record and a judge failure is a profile
   row, next to a row of the error report *)
TablesSplitWitness ==
  /\ saved /\ Len(tables.profiles) >= 1 /\ Len(tables.errors) >= 1
  /\ \E j \in 1..Len(results) :
       /\ HasData(results[j])
       /\ results[j].error = JudgeError("api_error")
       /\ Cardinality(ErrorRowsOf(results[j].url))
            = Cardinality({k \in ResultsOf(results[j].url) : ~HasData(results[k])})

-----------------------------------------------------------------------------
(* C15: validate_data entered with error unset and without cleaned text, or
   without a record, returns the state it was given, whatever the judge would
   answer; error stays unset, there is no verdict, and the graph goes to END. *)
SkippedInputs(s) ==
  {s, [s EXCEPT !.preprocessed_content = Null], [s EXCEPT !.preprocessed_content = ""],
   [s EXCEPT !.extracted_data = NoData]}

ValidateSkipReturnsState ==
  (pc = "processing" /\ node = "validate_data") =>
    \A s \in SkippedInputs(st) :
      (~Truthy(s.error) /\ (~Truthy(s.preprocessed_content) \/ ~HasData(s))) =>
        /\ \A j \in JudgeOutcomes, d \in BOOLEAN : validate_data(s, j, d) = Ret(s)
        /\ decide_after_validation(s) = "END"
        /\ s.validation_result = NoVerdict

ValidateSkipStep ==
  (InGraph /\ node = "validate_data" /\ node' # node
     /\ (~Truthy(st.preprocessed_content) \/ ~HasData(st))) =>
    /\ st' = st
    /\ node' = "END"
    /\ ~Truthy(st'.error)
    /\ st'.validation_result = NoVerdict

ValidateSkippedNotFailed == [](ValidateSkipReturnsState) /\ [][ValidateSkipStep]_vars

(* a record extracted from a page without text went through validate_data
   unvalidated and the run is at END *)
ValidateSkippedWitness ==
  /\ pc = "processing" /\ node = "END"
  /\ ~Truthy(st.error)
  /\ st.preprocessed_content = ""
  /\ st.extracted_data.kind = "ProfileData"
  /\ st.validation_result = NoVerdict
  /\ "validation_time_ms" \notin DOMAIN st.metrics

-----------------------------------------------------------------------------
(* C16: validate_data, entered with text and a record, on any judge answer
   that parses as JSON neither raises nor sets error; it stores a verdict in
   which a field the answer gives a status for has that status and every
   other field has "Not Applicable". *)
GaveStatus(body, f) ==
  \/ (f \in DOMAIN body /\ body[f].t \in {"obj", "str"})
  \/ (StatusField(f) \in DOMAIN body /\ body[StatusField(f)].t \in {"obj", "str"})

GivenStatus(body, f) ==
  IF f \in DOMAIN body /\ body[f].t \in {"obj", "str"} THEN body[f].status
  ELSE body[StatusField(f)].status

ParseableJudgeAnswerPatched ==
  (pc = "processing" /\ node = "validate_data" /\ ~Truthy(st.error)
     /\ Truthy(st.preprocessed_content) /\ HasData(st)) =>
    \A j \in JudgeOutcomes, d \in BOOLEAN :
      j.kind = "json" =>
        LET r == validate_data(st, j, d)
        IN /\ ~r.raised
           /\ ~Truthy(r.state.error)
           /\ r.state.validation_result.kind = "ValidationResult"
           /\ \A f \in StatusFields :
                r.state.validation_result[StatusField(f)]
                  = IF GaveStatus(j.body, f) THEN GivenStatus(j.body, f)
                    ELSE "Not Applicable"

-----------------------------------------------------------------------------
(* C17: preprocess_content, entered with a page, never lets an exception out;
   it sets error exactly when the page has neither a content container nor a
   body element, then with error_details set and no cleaned text; any text of
   an existing region, however short, is stored without error. *)
PreprocessFailsOnlyWithoutBody ==
  [][(InGraph /\ node = "preprocess_content" /\ node' # node
        /\ ~Truthy(st.error) /\ Truthy(st.html_content))
      => /\ node' # "raised"
         /\ (Truthy(st'.error) <=> PageInfo(st.html_content).region = "none")
         /\ (Truthy(st'.error) =>
               /\ st'.error_details # Null
               /\ st'.preprocessed_content = Null)
         /\ (~Truthy(st'.error) =>
               st'.preprocessed_content = PageInfo(st.html_content).text)]_vars

-----------------------------------------------------------------------------
(* C18: whether dump_debug_info can write its file or not, extract_data and
   validate_data return, and return the same state. *)
DumpNeverChangesOutcome ==
  /\ (pc = "processing" /\ node = "extract_data") =>
       \A llm \in LlmOutcomes :
         /\ ~extract_data(st, llm, FALSE).raised
         /\ extract_data(st, llm, FALSE) = extract_data(st, llm, TRUE)
  /\ (pc = "processing" /\ node = "validate_data") =>
       \A j \in JudgeOutcomes :
         /\ ~validate_data(st, j, FALSE).raised
         /\ validate_data(st, j, FALSE) = validate_data(st, j, TRUE)

-----------------------------------------------------------------------------
(* C19: when preprocess_content found a photograph, it hands its URL to
   extract_data, and the record extract_data builds carries that URL whatever
   photo_url the model's answer holds: none, the same, another. *)
FoundPhoto(s) ==
  Truthy(s.html_content) /\ PageInfo(s.html_content).headshot = "img_src"

PhotoHandedOver ==
  (InGraph /\ node = "preprocess_content" /\ ~Truthy(st.error) /\ FoundPhoto(st)
     /\ node' = "extract_data")
    => st'.extracted_data = PhotoDict("pre.jpg")

PhotoSurvivesExtract ==
  (InGraph /\ node = "extract_data" /\ st.extracted_data.kind = "dict") =>
    \A llm \in LlmOutcomes, dumpOk \in BOOLEAN :
      LET r == extract_data(st, llm, dumpOk).state
      IN r.extracted_data.kind = "ProfileData"
           => r.extracted_data.photo_url = st.extracted_data.photo_url

PhotoInResults ==
  \A i \in 1..Len(results) :
    (FoundPhoto(results[i]) /\ results[i].extracted_data.kind = "ProfileData")
      => results[i].extracted_data.photo_url = "pre.jpg"

PreprocessPhotoWins ==
  [](PhotoSurvivesExtract /\ PhotoInResults) /\ [][PhotoHandedOver]_vars

PreprocessPhotoWinsWitness ==
  \E i \in 1..Len(results) :
    /\ FoundPhoto(results[i])
    /\ results[i].extracted_data = ProfileData(results[i].url, "pre.jpg")

-----------------------------------------------------------------------------
(* C20: the source_url of every extracted record is the URL its pipeline
   state was created for, whether the model's answer names that URL, another
   one, or none. *)
SourceUrlSetByExtract ==
  (InGraph /\ node = "extract_data") =>
    \A llm \in LlmOutcomes, dumpOk \in BOOLEAN :
      LET r == extract_data(st, llm, dumpOk).state
      IN r.extracted_data.kind = "ProfileData"
           => r.extracted_data.source_url = st.url

SourceUrlIsInputUrl ==
  /\ SourceUrlSetByExtract
  /\ (InGraph /\ st.extracted_data.kind = "ProfileData")
       => st.extracted_data.source_url = urls[idx]
  /\ \A i \in 1..Len(results) :
       results[i].extracted_data.kind = "ProfileData"
         => results[i].extracted_data.source_url = urls[i]

SourceUrlWitness ==
  \E i \in 1..Len(results) :
    /\ urls[i] = "u2"
    /\ results[i].html_content = "photo"
    /\ results[i].extracted_data.kind = "ProfileData"
    /\ results[i].extracted_data.source_url = "u2"

-----------------------------------------------------------------------------
(* The metrics an aggregation returned, the list and the trace it was given *)
Aggregated ==
  \/ prog = "runner" /\ pc \in {"reported", "saved"}
  \/ prog = "main" /\ mthread = "done"

AggregatedMetrics == IF prog = "runner" THEN metrics ELSE mout

AggregatedResults == IF prog = "runner" THEN results ELSE agg_input

AverageKeys ==
  IF prog = "runner"
  THEN [cost |-> "average_cost_per_successful_profile",
        time |-> "average_processing_time_ms_per_successful_profile", scale |-> 1]
  ELSE [cost |-> "average_cost_per_profile",
        time |-> "average_processing_time_s", scale |-> 1000]

(* C21: each reported average is the mean over the results that have an
   extracted record: the sum of the quantity over those results divided by
   their number. *)
AveragesOverSuccessfulSubset ==
  Aggregated =>
    LET m == AggregatedMetrics
        successful == SelectSeq(AggregatedResults, HasData)
        n == Len(successful)
    IN (n > 0 /\ HasKey(m, AverageKeys.cost)) =>
         /\ SameQuotient(m[AverageKeys.cost], Avg(SumOver(successful, 1, CostKeys), n))
         /\ SameQuotient(m[AverageKeys.time],
                         Avg(SumOver(successful, 1, TimeKeys), AverageKeys.scale * n))

-----------------------------------------------------------------------------
(* C22: total_tokens is the count of the trace when that is greater than 0;
   otherwise the sum of the per-step token counts over all results; and when
   that sum is 0 and total_cost is greater than 0, the whole number of tokens
   total_cost buys at the average price. *)
TokensInOrder(rs, trace) ==
  IF trace.kind = "ok" /\ trace.count > 0 THEN trace.count
  ELSE IF SumOver(rs, 1, TokenKeys) > 0 THEN SumOver(rs, 1, TokenKeys)
  ELSE IF SumOver(rs, 1, CostKeys) > 0
  THEN (2 * SumOver(rs, 1, CostKeys)) \div (PriceInput + PriceOutput)
  ELSE 0

TotalTokensFallbackOrder ==
  Aggregated =>
    AggregatedMetrics["total_tokens"] = TokensInOrder(AggregatedResults, agg_trace)

-----------------------------------------------------------------------------
(* C23: with empty or absent preprocessed content extract_data still runs and
   returns; the state it returns has either an error and no record, or a
   record whose source_url is the state's URL. *)
EmptyContentExtractReturns ==
  (InGraph /\ node = "extract_data" /\ ~Truthy(st.error)
     /\ ~Truthy(st.preprocessed_content)) =>
    \A llm \in LlmOutcomes, dumpOk \in BOOLEAN :
      LET r == extract_data(st, llm, dumpOk)
      IN /\ ~r.raised
         /\ \/ Truthy(r.state.error) /\ r.state.extracted_data = NoData
            \/ r.state.extracted_data.kind = "ProfileData"
                 /\ r.state.extracted_data.source_url = st.url

-----------------------------------------------------------------------------
(* C24: stripping the code fence is transparent. For every JSON text t, the
   answer that is t inside a fence, tagged json or not, is parsed to the value
   t is parsed to, and gives the step the result t gives; an answer without a
   fence is handed to the parser as it is. *)
Answer(c) == [kind |-> "answer", content |-> c]

FenceTransparent ==
  (InGraph /\ node = "extract_data") =>
    \A v \in JsonValues :
      \A t \in JsonTexts(v) :
        /\ strip_code_fences(t) = t
        /\ json_loads(t) = [ok |-> TRUE, value |-> v]
        /\ \A fence \in Fences :
             /\ json_loads(strip_code_fences(Wrap(fence, t))) = json_loads(t)
             /\ \A dumpOk \in BOOLEAN :
                  extract_data(st, Answer(Wrap(fence, t)), dumpOk)
                    = extract_data(st, Answer(t), dumpOk)

(* a record only the fenced answer of the model's runs produces *)
FenceTransparentWitness ==
  \E i \in 1..Len(results) :
    /\ results[i].extracted_data.kind = "ProfileData"
    /\ results[i].extracted_data.source_url = results[i].url
    /\ results[i].extracted_data.year = "2019"
    /\ results[i].extracted_data.photo_url = "llm.jpg"

-----------------------------------------------------------------------------
(* C25: a degree year that is a number in the answer is stored in the record
   as the string of its digits, a year that is a string or null is stored as
   it is, and a numeric year never makes extract_data fail. *)
NumericYearStoredAsString ==
  (InGraph /\ node = "extract_data" /\ ~Truthy(st.error)) =>
    \A llm \in LlmOutcomes, dumpOk \in BOOLEAN :
      LET parsed == parsed_json(llm)
          y == parsed.value.year
          r == extract_data(st, llm, dumpOk)
      IN (llm.kind = "answer" /\ parsed.ok /\ parsed.value.type \in {"object", "array1"}
            /\ parsed.value.valid) =>
           /\ y.t \in {"int", "float"} =>
                /\ ~r.raised /\ ~Truthy(r.state.error)
                /\ r.state.extracted_data.kind = "ProfileData"
           /\ (y.t \in {"int", "str"} /\ r.state.extracted_data.kind = "ProfileData")
                => r.state.extracted_data.year = y.text
           /\ (y.t \in {"null", "absent"} /\ r.state.extracted_data.kind = "ProfileData")
                => r.state.extracted_data.year = Null

-----------------------------------------------------------------------------
(* C26: a top-level object is used as it is and a one-element array is
   replaced by its element; any other top-level value (an empty array, an
   array of two or more, a number, a string, a boolean, null) makes
   extract_data return a parse failure: error set, the raw text in the error
   detail, no record. *)
OtherTopLevel == {"array0", "array2", "number", "string", "boolean", "null"}

TopLevelShapeDecides ==
  (InGraph /\ node = "extract_data" /\ ~Truthy(st.error)) =>
    \A v \in JsonValues, dumpOk \in BOOLEAN :
      \A t \in JsonTexts(v) :
        LET r == extract_data(st, Answer(t), dumpOk)
        IN /\ (v.type \in {"object", "array1"} /\ v.valid /\ year_is_valid(normalize_year(v.year)))
                => /\ ~r.raised
                   /\ r.state.extracted_data.kind = "ProfileData"
                   /\ r.state.extracted_data.source_url = st.url
           /\ v.type \in OtherTopLevel
                => /\ ~r.raised
                   /\ r.state.error
                        = "LLM output failed validation/parsing after successful call"
                   /\ r.state.error_details = "ValueError"
                   /\ error_details_llm_content(Answer(t)) = [present |-> TRUE, content |-> t]
                   /\ r.state.extracted_data = NoData

-----------------------------------------------------------------------------
(* C27: the photo lookup of preprocess_content is best effort. Whether the
   headshot container is absent, holds no image, or holds an image without a
   src attribute, the step sets no error and returns the cleaned text; only
   the photo URL stays unset. *)
PhotoLookupBestEffort ==
  (InGraph /\ node = "preprocess_content" /\ ~Truthy(st.error)
     /\ Truthy(st.html_content) /\ PageInfo(st.html_content).region # "none"
     /\ PageInfo(st.html_content).headshot \in {"absent", "noimg", "img_nosrc"}) =>
    LET r == preprocess_content(st)
    IN /\ ~r.raised
       /\ ~Truthy(r.state.error)
       /\ r.state.preprocessed_content = PageInfo(st.html_content).text
       /\ r.state.extracted_data = NoData

-----------------------------------------------------------------------------
(* C28: no retries. Within the run of one URL the steps execute in the order
   fetch, preprocess, extract, validate, error handler, end, each at most
   once: every step of the graph moves to a later one, nothing leaves the end,
   and a position of the URL list is started once and left for the next. *)
Rank(n) ==
  CASE n = "fetch_html" -> 1
    [] n = "preprocess_content" -> 2
    [] n = "extract_data" -> 3
    [] n = "validate_data" -> 4
    [] n = "handle_error" -> 5
    [] OTHER -> 6

GraphMovesForward ==
  (pc = "processing" /\ pc' = "processing" /\ <<st, node, exc>>' # <<st, node, exc>>)
    => /\ node \notin {"END", "raised"}
       /\ Rank(node') > Rank(node)

UrlStartedOnce ==
  /\ (pc # "processing" /\ pc' = "processing")
       => (pc = "loop" /\ node = "idle" /\ node' = "fetch_html" /\ idx' = idx
             /\ st' = initial_state(urls[idx]))
  /\ (pc = "processing" /\ pc' # "processing")
       => (node \in {"END", "raised"} /\ node' = "idle" /\ idx' = idx + 1)

NoRetries == [][GraphMovesForward /\ UrlStartedOnce]_vars

(* a URL that went through all four steps and one that ended in the error
   handler *)
NoRetriesWitness ==
  /\ Len(results) >= 2
  /\ results[1].validation_result.kind = "ValidationResult"
  /\ HasKey(results[1].metrics, "validation_time_ms")
  /\ Truthy(results[2].error)
  /\ ~HasKey(results[2].metrics, "extraction_time_ms")

-----------------------------------------------------------------------------
(* C29: deferred aggregation equals inline aggregation. Whenever main started
   the metrics thread, the metrics it hands to save_results are what
   calculate_metrics returns for the result list. *)
DeferredEqualsInline ==
  (prog = "main" /\ pc = "save" /\ agg_runs > 0) =>
    \E trace \in TraceOutcomes : metrics = main_calculate_metrics(results, trace)

-----------------------------------------------------------------------------
(* C30: when no metrics were computed and there is at least one result,
   save_results is called with the empty metrics dictionary, writes the tables
   for exactly the accumulated results and returns without raising. *)
SaveWithEmptyMetricsStep ==
  (prog = "main" /\ pc = "save" /\ results # <<>> /\ metrics = EmptyDict /\ pc' # "save")
    => /\ tables' = save_results(results)
       /\ ~main_save_results(results, metrics).raised
       /\ pending' = pending
       /\ pc' = "finally"

SaveWithEmptyMetricsReturns == [][SaveWithEmptyMetricsStep]_vars

-----------------------------------------------------------------------------
(* C31: error and error_details are set together. In every state a step of the
   graph returned and in every result of the batch, error is non-null exactly
   when error_details is non-null. *)
Correlated(s) == (s.error # Null) <=> (s.error_details # Null)

ErrorAndDetailsCorrelated ==
  /\ (pc = "processing" /\ node # "raised") => Correlated(st)
  /\ \A i \in 1..Len(results) : Correlated(results[i])

ErrorAndDetailsWitness ==
  /\ Len(results) >= 2
  /\ results[1].error # Null /\ results[1].error_details = "UnboundLocalError"
  /\ results[2].error = Null /\ results[2].error_details = Null
  /\ pc = "processing" /\ node = "handle_error"
  /\ st.error = "Request timed out" /\ st.error_details = "Timeout"

-----------------------------------------------------------------------------
(* C32: aggregation is a pure reduction. The step in which calculate_metrics
   runs leaves the result list, and so every result in it, unchanged, and the
   metrics it returns are determined by the list and the trace data alone, so
   two calls with the same list and the same trace data return equal metrics. *)
AggregationStepIsPure ==
  /\ (prog = "runner" /\ pc = "returned" /\ pc' = "reported") =>
       /\ results' = results
       /\ metrics' = calculate_metrics(results', agg_trace')
  /\ (prog = "main" /\ mthread = "running" /\ mthread' = "done") =>
       /\ results' = results
       /\ agg_input' = agg_input
       /\ agg_input' = results'
       /\ mout' = main_calculate_metrics(agg_input', agg_trace')

AggregationIsPure == [][AggregationStepIsPure]_vars

AggregationIsPureWitness ==
  /\ prog = "main" /\ mthread = "done"
  /\ Len(agg_input) >= 2 /\ agg_input = results
  /\ Truthy(results[1].error) /\ HasData(results[2])
  /\ Get(mout, "total_urls", 0) = Len(results)

-----------------------------------------------------------------------------
(* C33: the aggregated counts partition the results. In the metrics an
   aggregation returned, successful_extractions + failed_extractions equals
   total_urls, and total_urls is the length of the list. *)
CountsPartitionResults ==
  Aggregated =>
    /\ Get(AggregatedMetrics, "total_urls", 0) = Len(AggregatedResults)
    /\ Get(AggregatedMetrics, "successful_extractions", 0)
         + Get(AggregatedMetrics, "failed_extractions", 0)
       = Get(AggregatedMetrics, "total_urls", 0)

-----------------------------------------------------------------------------
(* C34: no URL ends silently unsuccessful. Every result the batch runner
   accumulated has a non-empty error or an extracted record, and every row of
   the error table carries an error description. *)
NoSilentFailure ==
  prog = "runner" =>
    /\ \A i \in 1..Len(results) : Truthy(results[i].error) \/ HasData(results[i])
    /\ \A i \in 1..Len(tables.errors) : Truthy(tables.errors[i].error)

-----------------------------------------------------------------------------
(* C35: when extract_data runs (no earlier error) and returns, exactly one of
   error and the extracted record is set in the state it returns, whatever the
   LLM did: the call failed, the text is not JSON, the JSON has the wrong shape,
   the object violates the schema, or the record is valid. So should_validate
   never takes its last branch: it leaves the returned state as it is. *)
ExtractSetsErrorXorRecord ==
  (InGraph /\ node = "extract_data" /\ ~Truthy(st.error)) =>
    \A llm \in LlmOutcomes, dumpOk \in BOOLEAN :
      LET r == extract_data(st, llm, dumpOk)
      IN ~r.raised =>
           /\ (r.state.error # Null) # HasData(r.state)
           /\ Truthy(r.state.error) = (r.state.error # Null)
           /\ should_validate_state(r.state) = r.state
           /\ should_validate(r.state) =
                IF HasData(r.state) THEN "validate_data" ELSE "handle_error"

(* extraction failed on a page whose photo preprocessing had found: the error
   is set and the record is gone *)
ExtractSetsErrorXorRecordWitness ==
  /\ pc = "processing" /\ node = "handle_error"
  /\ HasKey(st.metrics, "extraction_time_ms")
  /\ st.html_content = "photo"
  /\ st.error = "LLM output failed validation/parsing after successful call"
  /\ ~HasData(st)

-----------------------------------------------------------------------------
(* C36: whenever successful_extractions is greater than 0, the reported
   average of tokens per successful profile is the reported total_tokens
   divided by successful_extractions, whichever source supplied total_tokens. *)
AverageTokensKey ==
  IF prog = "runner" THEN "average_tokens_per_successful_profile"
  ELSE "average_tokens_per_profile"

AverageTokensFollowsTotal ==
  Aggregated =>
    LET m == AggregatedMetrics
    IN m["successful_extractions"] > 0 =>
         /\ HasKey(m, AverageTokensKey)
         /\ SameQuotient(m[AverageTokensKey],
                         Avg(m["total_tokens"], m["successful_extractions"]))

-----------------------------------------------------------------------------
(* C37: the cancellation flag is monotonic. No step resets it; once it is set
   is_shutdown_requested answers true; request_shutdown sets it and a repeated
   request returns the flag it was given; a signal that arrives when the flag
   is set changes nothing. *)
FlagMonotonicStep ==
  /\ shutdown => shutdown'
  /\ shutdown' => is_shutdown_requested(shutdown')
  /\ \A flag \in BOOLEAN :
       /\ is_shutdown_requested(request_shutdown(flag))
       /\ request_shutdown(request_shutdown(flag)) = request_shutdown(flag)
       /\ flag => request_shutdown(flag) = flag
  /\ (shutdown /\ (signal_handler \/ main_signal_handler)) => UNCHANGED vars

FlagIsMonotonic == [][FlagMonotonicStep]_vars

(* the flag was set while a URL was in the pipeline and is still set after
   that URL's result was appended and the loop stopped *)
FlagIsMonotonicWitness ==
  /\ shutdown /\ atFlag.set /\ atFlag.inflight
  /\ Len(results) = Len(atFlag.results) + 1
  /\ interrupted
  /\ pc \notin {"loop", "processing"}

-----------------------------------------------------------------------------
(* C38: concurrent callers of cleanup_resources of src/cleanup.py run the
   cleanup body exactly once in total. At most one caller is between the test
   of the done flag and its setting, the body has run at most once in every
   state, and it has run exactly once as soon as one caller has returned. *)
InsideGuard(t) == cleanup_state.at[t] \in {"locked", "body", "finished"}

CleanupBodyRunsOnce ==
  /\ \A t, u \in Threads : (InsideGuard(t) /\ InsideGuard(u)) => t = u
  /\ \A t \in Threads : InsideGuard(t) => cleanup_state.lock = t
  /\ cleanup_state.runs <= 1
  /\ (\E t \in Threads : cleanup_state.at[t] = "returned") => cleanup_state.runs = 1
  /\ cleanup_state.done => cleanup_state.runs = 1

(* two callers have both returned: one ran the body, the other skipped it *)
CleanupBodyRunsOnceWitness ==
  /\ cleanup_state.at[1] = "returned" /\ cleanup_state.at[2] = "returned"
  /\ cleanup_state.runs = 1 /\ cleanup_state.done

-----------------------------------------------------------------------------
(* C39: termination. The run of the graph for a URL executes at most five
   nodes and ends (at END, or with the exception of a node, which process_url
   turns into an error result), its result is then appended, the loop never
   goes past one iteration per URL of the list, and it is eventually over. *)
LoopRunning == pc \in {"load_urls", "loop", "processing"}

PipelineAndLoopTerminate ==
  /\ [](steps <= 5)
  /\ [](idx <= Len(urls) + 1 /\ Len(results) = idx - 1)
  /\ (pc = "processing") ~> (pc = "processing" /\ node \in {"END", "raised"})
  /\ (pc = "processing") ~> (pc # "processing")
  /\ <>[](~LoopRunning)

(* the last URL of a list of two or more went through five nodes, fetch to
   validation and then the error handler, and the loop is over *)
PipelineAndLoopTerminateWitness ==
  /\ ~LoopRunning /\ ~StartupFailed
  /\ Len(urls) >= 2 /\ idx = Len(urls) + 1 /\ Len(results) = Len(urls)
  /\ steps = 5
  /\ HasKey(results[Len(results)].metrics, "validation_time_ms")
  /\ Truthy(results[Len(results)].error)

====
